---------------------------- MODULE Spec2Model ----------------------------
(***************************************************************************)
(* A model of the backup / restore scripts of meraki-orchestration:        *)
(*   scripts/restore_from_backup.py  (restore_from_backup and its steps)   *)
(*   scripts/backup_system.py        (backup_network_full)                 *)
(* Python dicts are functions over the set of keys they hold, so a missing *)
(* key is a key outside DOMAIN.  Python lists are sequences.  The remote   *)
(* service (the Meraki dashboard) is the variable remote; every call made  *)
(* through the client is appended to calls, every printed line that the    *)
(* properties read is appended to out.                                     *)
(***************************************************************************)
EXTENDS Integers, Sequences, FiniteSets, TLC

(***************************************************************************)
(* Bounds of the model.                                                    *)
(***************************************************************************)
\* most records (VLANs, SSIDs, policies, ports, firewall sections) in one
\* snapshot of the whole-restore specification
MaxTotal == 3
\* most records of a snapshot of the whole restore that lack their key
MaxBad == 1
\* longest VLAN list given to restore_vlans on its own
MaxVlans == 2
\* longest L3 rule list given to restore_firewall_rules on its own
MaxRules == 2
\* longest SSID list given to restore_ssids on its own
MaxSsids == 1
\* longest policy list given to restore_group_policies on its own
MaxPolicies == 2
\* longest list inside a snapshot given to save_backup
MaxJsonLen == 2
\* most files in the backup directory
MaxFiles == 3
\* most reads of one capture that the service refuses
MaxFaults == 2

(***************************************************************************)
(* Generic helpers.                                                        *)
(***************************************************************************)
Has(dict, k) == k \in DOMAIN dict

Drop(dict, k) == [x \in DOMAIN dict \ {k} |-> dict[x]]

Restrict(dict, keys) == [x \in DOMAIN dict \cap keys |-> dict[x]]

\* dict.update(other): the keys of other win
Update(dict, other) ==
    [x \in DOMAIN dict \cup DOMAIN other |->
        IF x \in DOMAIN other THEN other[x] ELSE dict[x]]

SeqsUpTo(S, n) == UNION {[1..k -> S] : k \in 0..n}

Indices(s) == 1..Len(s)

\* a Python local that is not bound yet is <<>>, a bound one is <<value>>
Unbound == <<>>

Bound(v) == <<v>>

(***************************************************************************)
(* Text.  A comment is a sequence of characters so that str.lower() and    *)
(* the substring test of restore_firewall_rules are computed.              *)
(***************************************************************************)
UpperChars == <<"A", "B", "D", "E", "F", "L", "T", "U">>

LowerChars == <<"a", "b", "d", "e", "f", "l", "t", "u">>

\* str.lower() on one character
LowerChar(c) ==
    IF \E n \in Indices(UpperChars) : UpperChars[n] = c
    THEN LowerChars[CHOOSE n \in Indices(UpperChars) : UpperChars[n] = c]
    ELSE c

\* str.lower()
lower(s) == [n \in Indices(s) |-> LowerChar(s[n])]

\* sub in s
Contains(sub, s) ==
    \E off \in 0..(Len(s) - Len(sub)) :
        \A n \in Indices(sub) : s[off + n] = sub[n]

default == <<"d", "e", "f", "a", "u", "l", "t">>


(***************************************************************************)
(* The values the snapshots and the remote service are made of.            *)
(***************************************************************************)
\* the network the snapshot was taken from, and another network
Networks == {"N_A", "N_B"}

PolicyNames == <<"Guest", "Staff", "IoT", "Kiosk", "Lab">>

PortIds == <<"1", "2", "3", "4", "5">>

Serials == <<"Q2SW-0001", "Q2SW-0002", "Q2SW-0003", "Q2SW-0004", "Q2SW-0005">>

metadata ==
    [timestamp |-> "2024-01-01T00:00:00", network_id |-> "N_A",
     network_name |-> "Branch Office", backup_version |-> "1.0"]

\* a VLAN record as getNetworkApplianceVlans returns it
Vlan(id, nm) ==
    [id |-> id, name |-> nm, subnet |-> <<10, 0, id, 0, 24>>,
     applianceIp |-> <<10, 0, id, 1>>]

\* an L3 rule; restricted is an allow or deny for one source, protocol, port
Rule(comment, policy, dest, restricted) ==
    [comment |-> comment, policy |-> policy, destCidr |-> dest,
     protocol |-> IF restricted THEN "tcp" ELSE "any",
     srcCidr |-> IF restricted THEN "10.0.0.0/24" ELSE "Any",
     destPort |-> IF restricted THEN "443" ELSE "Any"]

DefaultRuleComment == <<"D", "e", "f", "a", "u", "l", "t", " ", "r", "u", "l", "e">>

UpperDefaultComment == <<"D", "E", "F", "A", "U", "L", "T">>

BlockComment == <<"B", "l", "o", "c", "k">>

\* the rule the service appends to every L3 rule list it returns
ServiceDefaultRule == Rule(DefaultRuleComment, "allow", "Any", FALSE)

\* an SSID record with every field restore_ssids reads
Ssid(num, nm, en) ==
    [number |-> num, name |-> nm, enabled |-> en, authMode |-> "psk",
     encryptionMode |-> "wpa", psk |-> "secret", defaultVlanId |-> 10,
     ipAssignmentMode |-> "Bridge mode", visible |-> TRUE]

SsidOptional ==
    {"authMode", "encryptionMode", "psk", "defaultVlanId", "ipAssignmentMode"}

\* a group policy record with every field restore_group_policies reads
Policy(id, nm) ==
    [groupPolicyId |-> id, name |-> nm, scheduling |-> "sched",
     bandwidth |-> "bw", firewallAndTrafficShaping |-> "fts"]

PolicyOptional == {"scheduling", "bandwidth", "firewallAndTrafficShaping"}

\* a switch port record with every field restore_switch_ports reads
Port(id) ==
    [portId |-> id, name |-> "uplink", enabled |-> TRUE, type |-> "access",
     vlan |-> 10, voiceVlan |-> 20, poeEnabled |-> TRUE]

PortOptional == {"name", "enabled", "type", "vlan", "voiceVlan", "poeEnabled"}

(***************************************************************************)
(* The remote service.  remote holds the live configuration:               *)
(*   vlans[net]    : VLAN id -> VLAN record                                *)
(*   rules[net]    : the explicit L3 rules, in order                       *)
(*   ssids[net]    : SSID number -> SSID record (every number exists)      *)
(*   policies[net] : the group policies, in creation order                 *)
(*   ports[serial] : portId -> port record                                 *)
(***************************************************************************)
SsidNumbers == {0, 1, 2, 3, 4}

UnconfiguredSsid(num) ==
    [number |-> num, name |-> "Unconfigured SSID", enabled |-> FALSE,
     authMode |-> "open", encryptionMode |-> "none", psk |-> "",
     defaultVlanId |-> 1, ipAssignmentMode |-> "NAT mode", visible |-> TRUE]

NoVlans == [id \in {} |-> {}]

\* the live state the whole-restore runs start from: N_A holds what the
\* snapshot was taken of and a VLAN and a policy no snapshot has, N_B is a
\* fresh network
RemoteInit ==
    [vlans |-> [n \in Networks |->
                  IF n = "N_A"
                  THEN [id \in {10, 99} |->
                           IF id = 10 THEN Vlan(10, "Old") ELSE Vlan(99, "Mgmt")]
                  ELSE NoVlans],
     rules |-> [n \in Networks |->
                  IF n = "N_A" THEN <<Rule(BlockComment, "deny", "Any", FALSE)>>
                  ELSE <<>>],
     ssids |-> [n \in Networks |-> [num \in SsidNumbers |-> UnconfiguredSsid(num)]],
     policies |-> [n \in Networks |->
                  IF n = "N_A"
                  THEN <<Policy(100, PolicyNames[1]), Policy(199, "Legacy")>>
                  ELSE <<>>],
     ports |-> [s \in {Serials[1]} |->
                  [p \in {PortIds[1], PortIds[2]} |->
                      [Port(p) EXCEPT !.name = "old", !.enabled = FALSE]]]]

\* str(vlan['id']): the decimal text of the id
str(id) == <<"str", id>>

\* the id the service reads from the decimal text
ParseId(text) == text[2]

(***************************************************************************)
(* The snapshots of the whole-restore specification.  A shape gives, for   *)
(* each category, -1 (the key is absent) or the number of records; devs    *)
(* gives the number of ports of each switch device.  bad names the records *)
(* written without their identifying key (id, number, name, portId,        *)
(* serial): a snapshot file is input, and nothing checks it on load.       *)
(***************************************************************************)
RECURSIVE Sum(_)
Sum(s) == IF s = <<>> THEN 0 ELSE Head(s) + Sum(Tail(s))

Pos(n) == IF n < 0 THEN 0 ELSE n

Shapes ==
    {sh \in [vl : -1..MaxTotal, fw : {-1, 1}, ss : -1..MaxTotal,
             gp : -1..MaxTotal, sw : {-1, 0},
             devs : SeqsUpTo(0..MaxTotal, MaxTotal)] :
        /\ sh.sw = -1 => sh.devs = <<>>
        /\ Pos(sh.vl) + Pos(sh.fw) + Pos(sh.ss) + Pos(sh.gp)
              + Len(sh.devs) + Sum(sh.devs) <= MaxTotal}

\* the records of a shape: <<category, device index, record index>>
ShapeItems(sh) ==
    {<<"vlan", 0, k>> : k \in 1..Pos(sh.vl)}
      \cup {<<"ssid", 0, k>> : k \in 1..Pos(sh.ss)}
      \cup {<<"policy", 0, k>> : k \in 1..Pos(sh.gp)}
      \cup {<<"device", n, 0>> : n \in Indices(sh.devs)}
      \cup UNION {{<<"port", n, k>> : k \in 1..sh.devs[n]} : n \in Indices(sh.devs)}

BadSets(sh) == {B \in SUBSET ShapeItems(sh) : Cardinality(B) <= MaxBad}

KeyOf(category) ==
    CASE category = "vlan" -> "id"
      [] category = "ssid" -> "number"
      [] category = "policy" -> "name"
      [] category = "device" -> "serial"
      [] category = "port" -> "portId"

\* the record as captured, without its key when bad names it
Mar(record, item, bad) ==
    IF item \in bad THEN Drop(record, KeyOf(item[1])) ELSE record

SnapshotRules ==
    <<Rule(BlockComment, "deny", "10.0.0.0/8", TRUE), ServiceDefaultRule>>

SnapshotOf(sh, bad) ==
    LET appliance ==
            [k \in (IF sh.vl >= 0 THEN {"vlans"} ELSE {})
                     \cup (IF sh.fw >= 0 THEN {"firewall_l3"} ELSE {}) |->
                IF k = "vlans"
                THEN [n \in 1..sh.vl |-> Mar(Vlan(10 * n, "Corp"), <<"vlan", 0, n>>, bad)]
                ELSE [rules |-> SnapshotRules]]
        wireless ==
            [k \in {"ssids"} |->
                [n \in 1..sh.ss |->
                    Mar(Ssid(n - 1, "Corp", TRUE), <<"ssid", 0, n>>, bad)]]
        policies ==
            [n \in 1..sh.gp |->
                Mar(Policy(100 + n, PolicyNames[n]), <<"policy", 0, n>>, bad)]
        switch ==
            [k \in {"devices"} |->
                [n \in Indices(sh.devs) |->
                    Mar([serial |-> Serials[n], name |-> "sw", model |-> "MS120",
                         ports |-> [m \in 1..sh.devs[n] |->
                                      Mar(Port(PortIds[m]), <<"port", n, m>>, bad)]],
                        <<"device", n, 0>>, bad)]]
        keys == {"metadata"}
                  \cup (IF sh.vl >= 0 \/ sh.fw >= 0 THEN {"appliance"} ELSE {})
                  \cup (IF sh.ss >= 0 THEN {"wireless"} ELSE {})
                  \cup (IF sh.gp >= 0 THEN {"group_policies"} ELSE {})
                  \cup (IF sh.sw >= 0 THEN {"switch"} ELSE {})
    IN  [k \in keys |->
            CASE k = "metadata" -> metadata
              [] k = "appliance" -> appliance
              [] k = "wireless" -> wireless
              [] k = "group_policies" -> policies
              [] k = "switch" -> switch]

\* what the operator may type at the confirmation prompt
ConfirmInputs == {"RESTORE", "restore", "RESTORE ", "yes", ""}

(***************************************************************************)
(* The state.                                                              *)
(*   backup, network_id, confirm : the loaded snapshot, the target network *)
(*       and the text typed at the prompt                                  *)
(*   pc, d, i : the position in restore_from_backup, the index of the      *)
(*       switch device and of the record the running loop is at            *)
(*   current_vlan_ids, current_names, number, name, port_id, restored :    *)
(*       the locals of the step functions                                  *)
(*   remote, calls, out : the service's live state, the calls issued to    *)
(*       it and the lines printed                                          *)
(*   exc : the exception that left restore_from_backup, "" when none       *)
(*   attempted : the records whose loop body has run (history)             *)
(*   remote0 : the service's live state when the run started (history)     *)
(***************************************************************************)
VARIABLES backup, network_id, confirm, pc, d, i, current_vlan_ids,
          current_names, number, name, port_id, restored, remote, calls,
          out, exc, attempted, remote0,
          files, backups, backup1, backup2, all_changes

vars == <<backup, network_id, confirm, pc, d, i, current_vlan_ids,
          current_names, number, name, port_id, restored, remote, calls,
          out, exc, attempted, remote0,
          files, backups, backup1, backup2, all_changes>>

\* the state of the tools that work on the backup directory: the directory
\* (file name -> content), the list list_backups returned, the two snapshots
\* compare_backups loaded and the changes it collected
offline == <<files, backups, backup1, backup2, all_changes>>

\* no backup directory content, nothing listed, loaded or compared
OfflineInit ==
    /\ files = <<>>
    /\ backups = <<>>
    /\ backup1 = <<>>
    /\ backup2 = <<>>
    /\ all_changes = <<>>

locals == <<current_vlan_ids, current_names, number, name, port_id, restored>>

NoParams == <<>>

\* one call through the client: the operation, whether it writes, the step
\* of the restore that issued it, the network or device addressed, the key
\* of the item, the keyword arguments, whether the service accepted it, and
\* the loop pass <<d, i>> that issued it
Call(op, write, step, net, key, params, ok) ==
    [op |-> op, write |-> write, step |-> step, net |-> net, key |-> key,
     params |-> params, ok |-> ok, at |-> <<d, i>>]

\* one printed line: its kind, the step that printed it and the key shown
Line(text, step, key) == [text |-> text, step |-> step, key |-> key]

LocalsInit ==
    /\ current_vlan_ids = {}
    /\ current_names = {}
    /\ number = Unbound
    /\ name = Unbound
    /\ port_id = Unbound
    /\ restored = 0

HistoryInit ==
    /\ calls = <<>>
    /\ out = <<>>
    /\ exc = ""
    /\ attempted = {}
    /\ d = 0
    /\ i = 0

\* restore_from_backup has loaded the file and printed the warning
Init ==
    /\ \E sh \in Shapes : \E bad \in BadSets(sh) : backup = SnapshotOf(sh, bad)
    /\ network_id \in Networks
    /\ confirm \in ConfirmInputs
    /\ pc = "confirm"
    /\ remote = RemoteInit
    /\ remote0 = remote
    /\ OfflineInit
    /\ LocalsInit
    /\ HistoryInit

\* an uncaught exception leaves restore_from_backup
Raise(e) ==
    /\ pc' = "crashed"
    /\ exc' = e

(***************************************************************************)
(* restore_from_backup: the confirmation gate.                             *)
(***************************************************************************)
\* a variant: the phrase is compared without regard to letter case
ConfirmedAnyCase(text) == text \in {"RESTORE", "restore"}

\* confirm != 'RESTORE' is false
Confirmed(text) == text = "RESTORE"

Confirm ==
    /\ pc = "confirm"
    /\ IF Confirmed(confirm)
       THEN /\ pc' = "step_vlans"
            /\ out' = Append(out, Line("STARTING RESTORE", 0, 0))
       ELSE /\ pc' = "cancelled"
            /\ out' = Append(out, Line("Restore cancelled", 0, 0))
    /\ UNCHANGED <<backup, network_id, confirm, d, i, locals, remote, calls,
                   exc, attempted, remote0, offline>>

(***************************************************************************)
(* The service's answers.  A call the service cannot carry out is refused  *)
(* (the client raises APIError); any call may be refused for reasons of    *)
(* the service's own (rate limit, outage, unsupported feature).            *)
(***************************************************************************)
Outcomes(possible) == IF possible THEN BOOLEAN ELSE {FALSE}

\* a variant: the accepted update leaves the network with that VLAN alone
VlanUpdatedAlone(rem, net, id, params) ==
    [rem EXCEPT !.vlans[net] = id :> Update(@[id], params)]

\* updateNetworkApplianceVlan(network_id, id, **params), accepted
VlanUpdated(rem, net, id, params) ==
    [rem EXCEPT !.vlans[net] = Update(@, id :> Update(@[id], params))]

\* createNetworkApplianceVlan(network_id, id=text, **params), accepted
VlanCreated(rem, net, text, params) ==
    [rem EXCEPT !.vlans[net] =
        Update(@, ParseId(text) :> Update([id |-> ParseId(text)], params))]

\* a variant: the SSID block is placed before the firewall block
AfterSwapped(step) ==
    CASE step = "vlans" -> "step_ssids"
      [] step = "ssids" -> "step_firewall"
      [] step = "firewall" -> "step_policies"
      [] step = "policies" -> "step_switch"
      [] step = "switch" -> "complete"

\* the order of the steps in restore_from_backup: where control goes when
\* the step is over or its section is absent from the snapshot
After(step) ==
    CASE step = "vlans" -> "step_firewall"
      [] step = "firewall" -> "step_ssids"
      [] step = "ssids" -> "step_policies"
      [] step = "policies" -> "step_switch"
      [] step = "switch" -> "complete"

\* the loop of a step function moves to its next record, or the function
\* returns to restore_from_backup at label ret
Advance(loop, len, ret) ==
    IF i + 1 > len
    THEN /\ pc' = ret
         /\ i' = 0
    ELSE /\ pc' = loop
         /\ i' = i + 1

\* a variant: the except clause leaves the loop after its warning
HandledReturns(loop, len, ret) ==
    /\ pc' = ret
    /\ i' = 0

\* the except clause of a loop body has printed its warning: the loop goes
\* on with the next record
Handled(loop, len, ret) == Advance(loop, len, ret)

(***************************************************************************)
(* Step 1: restore_vlans(network_id, backup['appliance']['vlans'])         *)
(***************************************************************************)
StepVlans ==
    /\ pc = "step_vlans"
    /\ pc' = IF Has(backup, "appliance") /\ Has(backup["appliance"], "vlans")
             THEN "restore_vlans" ELSE After("vlans")
    /\ UNCHANGED <<backup, network_id, confirm, d, i, locals, remote, calls,
                   out, exc, attempted, remote0, offline>>

vlans_backup == backup["appliance"]["vlans"]

\* the read of the target's VLANs and the two id sets built before the loop
RestoreVlansRead ==
    /\ pc = "restore_vlans"
    /\ \E ok \in BOOLEAN :
        /\ calls' = Append(calls, Call("getNetworkApplianceVlans", FALSE, 1,
                                       network_id, 0, NoParams, ok))
        /\ current_vlan_ids' = IF ok THEN DOMAIN remote.vlans[network_id] ELSE {}
    /\ IF \E k \in Indices(vlans_backup) : ~Has(vlans_backup[k], "id")
       THEN /\ Raise("KeyError")
            /\ i' = i
       ELSE /\ exc' = exc
            /\ IF vlans_backup = <<>>
               THEN pc' = After("vlans") /\ i' = 0
               ELSE pc' = "vlan_loop" /\ i' = 1
    /\ UNCHANGED <<backup, network_id, confirm, d, current_names, number,
                   name, port_id, restored, remote, out, attempted, remote0, offline>>

\* what the loop body does for one VLAN: the exception raised while the
\* arguments are built, or the call to issue
VlanRequest(vlan, ids) ==
    IF ~({"id", "name", "subnet", "applianceIp"} \subseteq DOMAIN vlan)
    THEN [kind |-> "KeyError"]
    ELSE IF vlan["id"] \in ids
    THEN [kind |-> "update", op |-> "updateNetworkApplianceVlan",
          key |-> vlan["id"],
          params |-> Restrict(vlan, {"name", "subnet", "applianceIp"})]
    ELSE [kind |-> "create", op |-> "createNetworkApplianceVlan",
          key |-> str(vlan["id"]),
          params |-> Restrict(vlan, {"name", "subnet", "applianceIp"})]

\* whether the service can carry the VLAN request out
VlanPossible(rem, net, req) ==
    IF req.kind = "update"
    THEN req.key \in DOMAIN rem.vlans[net]
    ELSE ParseId(req.key) \notin DOMAIN rem.vlans[net]

\* one pass of the loop over vlans_backup
RestoreVlan ==
    /\ pc = "vlan_loop"
    /\ LET vlan == vlans_backup[i]
           req == VlanRequest(vlan, current_vlan_ids)
       IN  /\ attempted' = attempted \cup {<<1, 0, i>>}
           /\ IF req.kind = "KeyError"
              THEN \* the handler prints vlan['id']
                   IF Has(vlan, "id")
                   THEN /\ out' = Append(out, Line("warn", 1, vlan["id"]))
                        /\ Handled("vlan_loop", Len(vlans_backup), After("vlans"))
                        /\ UNCHANGED <<calls, remote, exc>>
                   ELSE /\ Raise("KeyError")
                        /\ UNCHANGED <<calls, remote, out, i>>
              ELSE \E ok \in Outcomes(VlanPossible(remote, network_id, req)) :
                   /\ calls' = Append(calls, Call(req.op, TRUE, 1, network_id,
                                                  req.key, req.params, ok))
                   /\ remote' =
                        IF ~ok THEN remote
                        ELSE IF req.kind = "update"
                        THEN VlanUpdated(remote, network_id, req.key, req.params)
                        ELSE VlanCreated(remote, network_id, req.key, req.params)
                   /\ out' = Append(out, Line(IF ok THEN req.kind ELSE "warn",
                                              1, vlan["id"]))
                   /\ IF ok
                      THEN Advance("vlan_loop", Len(vlans_backup), After("vlans"))
                      ELSE Handled("vlan_loop", Len(vlans_backup), After("vlans"))
                   /\ exc' = exc
    /\ UNCHANGED <<backup, network_id, confirm, d, locals, remote0, offline>>

(***************************************************************************)
(* Step 2: restore_firewall_rules(network_id,                              *)
(*                                backup['appliance']['firewall_l3'])      *)
(***************************************************************************)
StepFirewall ==
    /\ pc = "step_firewall"
    /\ pc' = IF Has(backup, "appliance") /\ Has(backup["appliance"], "firewall_l3")
             THEN "restore_firewall_rules" ELSE After("firewall")
    /\ UNCHANGED <<backup, network_id, confirm, d, i, locals, remote, calls,
                   out, exc, attempted, remote0, offline>>

firewall_backup == backup["appliance"]["firewall_l3"]

\* dict.get(k, fallback)
get(dict, k, fallback) == IF Has(dict, k) THEN dict[k] ELSE fallback

\* the same test on the comment as written, without lower()
SkippedRuleCaseSensitive(rule) ==
    /\ Contains(default, get(rule, "comment", <<>>))
    /\ get(rule, "policy", "") = "allow"
    /\ get(rule, "destCidr", "") \in {"Any", "any"}

\* the test of the loop's if: a rule the filter skips
SkippedRule(rule) ==
    LET comment == lower(get(rule, "comment", <<>>))
        policy == get(rule, "policy", "")
        dest == get(rule, "destCidr", "")
    IN  /\ Contains(default, comment)
        /\ policy = "allow"
        /\ dest \in {"Any", "any"}

\* the list the loop builds
explicit_rules(rules) == SelectSeq(rules, LAMBDA rule : ~SkippedRule(rule))

\* a variant: the accepted call adds the rules to the list of the target
RulesAppended(rem, net, rules) == [rem EXCEPT !.rules[net] = @ \o rules]

\* updateNetworkApplianceFirewallL3FirewallRules(network_id, rules=...),
\* accepted: the service stores the list in place of the one it held
RulesReplaced(rem, net, rules) == [rem EXCEPT !.rules[net] = rules]

RestoreFirewallRules ==
    /\ pc = "restore_firewall_rules"
    /\ LET rules == get(firewall_backup, "rules", <<>>)
           skipped == [n \in Indices(SelectSeq(rules, SkippedRule)) |->
                          Line("skip default", 2, n)]
       IN  \E ok \in BOOLEAN :
            /\ calls' = Append(calls,
                  Call("updateNetworkApplianceFirewallL3FirewallRules", TRUE, 2,
                       network_id, 0, [rules |-> explicit_rules(rules)], ok))
            /\ remote' = IF ok
                         THEN RulesReplaced(remote, network_id, explicit_rules(rules))
                         ELSE remote
            /\ out' = out \o skipped
                        \o <<Line(IF ok THEN "restored" ELSE "warn", 2, 0)>>
    /\ attempted' = attempted \cup {<<2, 0, 1>>}
    /\ pc' = After("firewall")
    /\ UNCHANGED <<backup, network_id, confirm, d, i, locals, exc, remote0, offline>>

(***************************************************************************)
(* Step 3: restore_ssids(network_id, backup['wireless']['ssids'])          *)
(***************************************************************************)
StepSsids ==
    /\ pc = "step_ssids"
    /\ IF Has(backup, "wireless") /\ Has(backup["wireless"], "ssids")
       THEN IF backup["wireless"]["ssids"] = <<>>
            THEN pc' = After("ssids") /\ i' = 0
            ELSE pc' = "ssid_loop" /\ i' = 1
       ELSE pc' = After("ssids") /\ i' = 0
    /\ UNCHANGED <<backup, network_id, confirm, d, locals, remote, calls,
                   out, exc, attempted, remote0, offline>>

ssids_backup == backup["wireless"]["ssids"]

\* the keyword arguments built for one SSID record that has its name
SsidParams(ssid) ==
    Update([name |-> ssid["name"], enabled |-> get(ssid, "enabled", TRUE)],
           Restrict(ssid, SsidOptional))

\* updateNetworkWirelessSsid(network_id, number, **params), accepted
SsidUpdated(rem, net, num, params) ==
    [rem EXCEPT !.ssids[net][num] = Update(@, params)]

\* one pass of the loop over ssids_backup
RestoreSsid ==
    /\ pc = "ssid_loop"
    /\ LET ssid == ssids_backup[i]
       IN  /\ attempted' = attempted \cup {<<3, 0, i>>}
           /\ IF ~Has(ssid, "number")
              THEN \* KeyError; the handler prints the local number
                   /\ number' = number
                   /\ UNCHANGED <<calls, remote>>
                   /\ IF number = Unbound
                      THEN Raise("UnboundLocalError") /\ UNCHANGED <<out, i>>
                      ELSE /\ out' = Append(out, Line("warn", 3, number[1]))
                           /\ Handled("ssid_loop", Len(ssids_backup), After("ssids"))
                           /\ exc' = exc
              ELSE /\ number' = Bound(ssid["number"])
                   /\ exc' = exc
                   /\ IF ~Has(ssid, "name")
                      THEN /\ out' = Append(out, Line("warn", 3, ssid["number"]))
                           /\ Handled("ssid_loop", Len(ssids_backup), After("ssids"))
                           /\ UNCHANGED <<calls, remote>>
                      ELSE \E ok \in Outcomes(ssid["number"] \in
                                                DOMAIN remote.ssids[network_id]) :
                           /\ calls' = Append(calls,
                                 Call("updateNetworkWirelessSsid", TRUE, 3,
                                      network_id, ssid["number"], SsidParams(ssid), ok))
                           /\ remote' = IF ok
                                        THEN SsidUpdated(remote, network_id,
                                                 ssid["number"], SsidParams(ssid))
                                        ELSE remote
                           /\ out' = Append(out, Line(IF ok THEN "restored" ELSE "warn",
                                                      3, ssid["number"]))
                           /\ IF ok
                              THEN Advance("ssid_loop", Len(ssids_backup), After("ssids"))
                              ELSE Handled("ssid_loop", Len(ssids_backup), After("ssids"))
    /\ UNCHANGED <<backup, network_id, confirm, d, current_vlan_ids,
                   current_names, name, port_id, restored, remote0, offline>>

(***************************************************************************)
(* Step 4: restore_group_policies(network_id, backup['group_policies'])    *)
(***************************************************************************)
StepPolicies ==
    /\ pc = "step_policies"
    /\ pc' = IF Has(backup, "group_policies")
             THEN "restore_group_policies" ELSE After("policies")
    /\ UNCHANGED <<backup, network_id, confirm, d, i, locals, remote, calls,
                   out, exc, attempted, remote0, offline>>

policies_backup == backup["group_policies"]

\* the names of the policies the service holds for the network
PolicyNamesOn(rem, net) ==
    {rem.policies[net][n]["name"] : n \in Indices(rem.policies[net])}

\* the read of the target's policies before the loop
RestorePoliciesRead ==
    /\ pc = "restore_group_policies"
    /\ \E ok \in BOOLEAN :
        /\ calls' = Append(calls, Call("getNetworkGroupPolicies", FALSE, 4,
                                       network_id, 0, NoParams, ok))
        /\ current_names' = IF ok THEN PolicyNamesOn(remote, network_id) ELSE {}
    /\ IF policies_backup = <<>>
       THEN pc' = After("policies") /\ i' = 0
       ELSE pc' = "policy_loop" /\ i' = 1
    /\ UNCHANGED <<backup, network_id, confirm, d, current_vlan_ids, number,
                   name, port_id, restored, remote, out, exc, attempted,
                   remote0, offline>>

\* what the loop body does for one policy with a name: skip it, or the
\* keyword arguments of the create
PolicyRequest(policy, names) ==
    IF policy["name"] \in names
    THEN [kind |-> "skip"]
    ELSE [kind |-> "create",
          params |-> Update([name |-> policy["name"]],
                            Restrict(policy, PolicyOptional))]

\* createNetworkGroupPolicy(network_id, **params), accepted: the service
\* gives the new policy an id of its own
PolicyCreated(rem, net, params) ==
    [rem EXCEPT !.policies[net] =
        Append(@, Update([groupPolicyId |-> 200 + Len(@)], params))]

\* one pass of the loop over policies_backup
RestorePolicy ==
    /\ pc = "policy_loop"
    /\ LET policy == policies_backup[i]
       IN  /\ attempted' = attempted \cup {<<4, 0, i>>}
           /\ IF ~Has(policy, "name")
              THEN \* KeyError; the handler prints the local name
                   /\ name' = name
                   /\ UNCHANGED <<calls, remote>>
                   /\ IF name = Unbound
                      THEN Raise("UnboundLocalError") /\ UNCHANGED <<out, i>>
                      ELSE /\ out' = Append(out, Line("warn", 4, name[1]))
                           /\ Handled("policy_loop", Len(policies_backup), After("policies"))
                           /\ exc' = exc
              ELSE LET req == PolicyRequest(policy, current_names)
                   IN  /\ name' = Bound(policy["name"])
                       /\ exc' = exc
                       /\ IF req.kind = "skip"
                          THEN /\ out' = Append(out, Line("skip", 4, policy["name"]))
                               /\ Advance("policy_loop", Len(policies_backup),
                                          After("policies"))
                               /\ UNCHANGED <<calls, remote>>
                          ELSE \E ok \in Outcomes(policy["name"] \notin
                                           PolicyNamesOn(remote, network_id)) :
                               /\ calls' = Append(calls,
                                     Call("createNetworkGroupPolicy", TRUE, 4,
                                          network_id, policy["name"], req.params, ok))
                               /\ remote' = IF ok
                                            THEN PolicyCreated(remote, network_id,
                                                               req.params)
                                            ELSE remote
                               /\ out' = Append(out,
                                     Line(IF ok THEN "restored" ELSE "warn", 4,
                                          policy["name"]))
                               /\ IF ok
                                  THEN Advance("policy_loop", Len(policies_backup),
                                               After("policies"))
                                  ELSE Handled("policy_loop", Len(policies_backup),
                                               After("policies"))
    /\ UNCHANGED <<backup, network_id, confirm, d, current_vlan_ids,
                   current_names, number, port_id, restored, remote0, offline>>

(***************************************************************************)
(* Step 5: for switch in backup['switch']['devices']:                      *)
(*             restore_switch_ports(switch['serial'], switch['ports'])     *)
(***************************************************************************)
StepSwitch ==
    /\ pc = "step_switch"
    /\ IF Has(backup, "switch") /\ Has(backup["switch"], "devices")
          /\ backup["switch"]["devices"] # <<>>
       THEN pc' = "switch_loop" /\ d' = 1
       ELSE pc' = After("switch") /\ d' = 0
    /\ UNCHANGED <<backup, network_id, confirm, i, locals, remote, calls,
                   out, exc, attempted, remote0, offline>>

devices_backup == backup["switch"]["devices"]

\* the device loop moves to its next switch, or the restore is complete
NextDevice ==
    IF d + 1 > Len(devices_backup)
    THEN /\ pc' = After("switch")
         /\ d' = 0
    ELSE /\ pc' = "switch_loop"
         /\ d' = d + 1

\* the arguments of restore_switch_ports are read and the function entered
RestoreSwitchPortsEnter ==
    /\ pc = "switch_loop"
    /\ attempted' = attempted \cup {<<5, d, 0>>}
    /\ LET switch == devices_backup[d]
       IN  IF ~Has(switch, "serial") \/ ~Has(switch, "ports")
           THEN /\ Raise("KeyError")
                /\ UNCHANGED <<d, i, port_id, restored, out>>
           ELSE /\ exc' = exc
                /\ port_id' = Unbound
                /\ restored' = 0
                /\ IF switch["ports"] = <<>>
                   THEN /\ out' = Append(out, Line("restored ports", 5, 0))
                        /\ NextDevice
                        /\ i' = 0
                   ELSE /\ out' = out
                        /\ pc' = "port_loop"
                        /\ d' = d
                        /\ i' = 1
    /\ UNCHANGED <<backup, network_id, confirm, current_vlan_ids,
                   current_names, number, name, remote, calls, remote0, offline>>

switch_serial == devices_backup[d]["serial"]

ports_backup == devices_backup[d]["ports"]

\* the keyword arguments built for one port record
PortParams(port) == Restrict(port, PortOptional)

\* updateDeviceSwitchPort(serial, port_id, **params), accepted
PortUpdated(rem, serial, id, params) ==
    [rem EXCEPT !.ports[serial][id] = Update(@, params)]

PortPossible(rem, serial, id) ==
    /\ serial \in DOMAIN rem.ports
    /\ id \in DOMAIN rem.ports[serial]

\* the loop of restore_switch_ports moves on; after the last port the
\* count is printed and the function returns into the device loop
AdvancePort(count) ==
    IF i + 1 > Len(ports_backup)
    THEN /\ i' = 0
         /\ NextDevice
         /\ out' = out \o <<Line("restored ports", 5, count)>>
    ELSE /\ i' = i + 1
         /\ pc' = "port_loop"
         /\ d' = d
         /\ out' = out

\* the same, after the handler printed the warning for key
AdvancePortWarned(key) ==
    IF i + 1 > Len(ports_backup)
    THEN /\ i' = 0
         /\ NextDevice
         /\ out' = out \o <<Line("warn", 5, key), Line("restored ports", 5, restored)>>
    ELSE /\ i' = i + 1
         /\ pc' = "port_loop"
         /\ d' = d
         /\ out' = Append(out, Line("warn", 5, key))

\* one pass of the loop over ports_backup
RestorePort ==
    /\ pc = "port_loop"
    /\ LET port == ports_backup[i]
       IN  /\ attempted' = attempted \cup {<<5, d, i>>}
           /\ IF ~Has(port, "portId")
              THEN \* KeyError; the handler prints the local port_id
                   /\ UNCHANGED <<port_id, restored, calls, remote>>
                   /\ IF port_id = Unbound
                      THEN Raise("UnboundLocalError") /\ UNCHANGED <<out, i, d>>
                      ELSE AdvancePortWarned(port_id[1]) /\ exc' = exc
              ELSE /\ port_id' = Bound(port["portId"])
                   /\ exc' = exc
                   /\ \E ok \in Outcomes(PortPossible(remote, switch_serial,
                                                      port["portId"])) :
                        /\ calls' = Append(calls,
                              Call("updateDeviceSwitchPort", TRUE, 5, switch_serial,
                                   port["portId"], PortParams(port), ok))
                        /\ remote' = IF ok
                                     THEN PortUpdated(remote, switch_serial,
                                              port["portId"], PortParams(port))
                                     ELSE remote
                        /\ restored' = IF ok THEN restored + 1 ELSE restored
                        /\ IF ok
                           THEN AdvancePort(restored + 1)
                           ELSE AdvancePortWarned(port["portId"])
    /\ UNCHANGED <<backup, network_id, confirm, current_vlan_ids,
                   current_names, number, name, remote0, offline>>

\* the closing report of restore_from_backup
Complete ==
    /\ pc = "complete"
    /\ pc' = "done"
    /\ out' = Append(out, Line("RESTORE COMPLETE", 6, 0))
    /\ UNCHANGED <<backup, network_id, confirm, d, i, locals, remote, calls,
                   exc, attempted, remote0, offline>>

Next ==
    \/ Confirm
    \/ StepVlans \/ RestoreVlansRead \/ RestoreVlan
    \/ StepFirewall \/ RestoreFirewallRules
    \/ StepSsids \/ RestoreSsid
    \/ StepPolicies \/ RestorePoliciesRead \/ RestorePolicy
    \/ StepSwitch \/ RestoreSwitchPortsEnter \/ RestorePort
    \/ Complete

Spec == Init /\ [][Next]_vars

(***************************************************************************)
(* Properties of the whole restore.                                        *)
(***************************************************************************)
\* the records of the loaded snapshot that a step iterates over, as
\* <<step, device index, record index>>
SnapshotItems ==
    (IF Has(backup, "appliance") /\ Has(backup["appliance"], "vlans")
     THEN {<<1, 0, k>> : k \in Indices(vlans_backup)} ELSE {})
    \cup (IF Has(backup, "appliance") /\ Has(backup["appliance"], "firewall_l3")
          THEN {<<2, 0, 1>>} ELSE {})
    \cup (IF Has(backup, "wireless") /\ Has(backup["wireless"], "ssids")
          THEN {<<3, 0, k>> : k \in Indices(ssids_backup)} ELSE {})
    \cup (IF Has(backup, "group_policies")
          THEN {<<4, 0, k>> : k \in Indices(policies_backup)} ELSE {})
    \cup (IF Has(backup, "switch") /\ Has(backup["switch"], "devices")
          THEN {<<5, n, 0>> : n \in Indices(backup["switch"]["devices"])}
               \cup UNION {IF Has(backup["switch"]["devices"][n], "ports")
                           THEN {<<5, n, k>> :
                                   k \in Indices(backup["switch"]["devices"][n]["ports"])}
                           ELSE {} : n \in Indices(backup["switch"]["devices"])}
          ELSE {})

Writes == {n \in Indices(calls) : calls[n].write}

\* C1: no call that modifies the remote service is issued unless the text
\* typed at the prompt is exactly RESTORE; with any other text the function
\* has returned without any remote call and the live state is as it was.
C1_NoWriteWithoutConfirmation ==
    /\ Writes # {} => confirm = "RESTORE"
    /\ confirm # "RESTORE" =>
          /\ calls = <<>>
          /\ remote = remote0
          /\ pc \in {"confirm", "cancelled"}

\* C1 witness: a near-miss of the phrase was typed over a snapshot that
\* holds VLANs to write, and the restore was cancelled.
C1_Witness ==
    /\ pc = "cancelled"
    /\ confirm = "restore"
    /\ Has(backup, "appliance") /\ Has(backup["appliance"], "vlans")
    /\ vlans_backup # <<>>

\* C2: the writes are issued in the order VLANs, firewall, SSIDs, group
\* policies, switch ports, and when a write of a step is issued every
\* record of every earlier step has been attempted.
C2_FixedStepOrder ==
    /\ \A m, n \in Writes : m < n => calls[m].step <= calls[n].step
    /\ \A n \in Writes : \A item \in SnapshotItems :
          item[1] < calls[n].step => item \in attempted

\* C2 witness: a finished run in which a write of an earlier step was
\* refused and a write of a later step was issued after it.
C2_Witness ==
    /\ pc = "done"
    /\ \E m, n \in Writes :
          /\ calls[m].step < calls[n].step
          /\ ~calls[m].ok

\* the key a call's warning names: the VLAN id for a create, whose id
\* argument is the id's text
ItemKey(call) ==
    IF call.op = "createNetworkApplianceVlan" THEN ParseId(call.key) ELSE call.key

Reported(call) ==
    \E m \in Indices(out) :
        /\ out[m].text = "warn"
        /\ out[m].step = call.step
        /\ out[m].key = ItemKey(call)

\* C3: every refused write is reported by a line that names its item, no
\* refusal stops the run (only a record without its key raises out of
\* restore_from_backup), and a run that reaches its end has attempted every
\* record of the snapshot.
C3_FailureIsolated ==
    /\ \A n \in Writes : ~calls[n].ok => Reported(calls[n])
    /\ pc = "done" => SnapshotItems \subseteq attempted
    /\ pc = "crashed" => exc \in {"KeyError", "UnboundLocalError"}

\* C3 witness: the first VLAN's write was refused, and the run went on to
\* attempt a second VLAN and a record of a later step, and finished.
C3_Witness ==
    /\ pc = "done"
    /\ \E n \in Writes : calls[n].step = 1 /\ ~calls[n].ok
                           /\ ItemKey(calls[n]) = 10
    /\ <<1, 0, 2>> \in attempted
    /\ \E item \in attempted : item[1] > 1

\* C4: once RESTORE has been typed, restore_from_backup runs to its
\* closing report for every snapshot and every pattern of refused calls:
\* it is at its end or has a step left to take.
C4_RunsToEnd == confirm = "RESTORE" => (pc = "done" \/ ENABLED Next)

(***************************************************************************)
(* restore_vlans on its own: the state when restore_from_backup reaches    *)
(* its VLAN block, over every VLAN list of up to MaxVlans records with     *)
(* distinct ids and every set of VLANs on the target.                      *)
(***************************************************************************)
VlanIds == {10, 20}

VlanRecs ==
    {Vlan(id, "Corp") : id \in VlanIds}
      \cup {Drop(Vlan(10, "Corp"), "subnet"), Drop(Vlan(20, "Corp"), "id")}

DistinctBy(list, k) ==
    \A m, n \in Indices(list) :
        (m # n /\ Has(list[m], k) /\ Has(list[n], k)) => list[m][k] # list[n][k]

\* the state restore_from_backup is in after the confirmation, at label
StepEntry(label) ==
    /\ network_id = "N_A"
    /\ confirm = "RESTORE"
    /\ pc = label
    /\ remote0 = remote
    /\ OfflineInit
    /\ LocalsInit
    /\ calls = <<>>
    /\ out = <<Line("STARTING RESTORE", 0, 0)>>
    /\ exc = ""
    /\ attempted = {}
    /\ d = 0
    /\ i = 0

InitVlans ==
    /\ \E list \in SeqsUpTo(VlanRecs, MaxVlans) :
        /\ DistinctBy(list, "id")
        /\ backup = [metadata |-> metadata, appliance |-> [vlans |-> list]]
    /\ \E live \in SUBSET VlanIds :
        remote = [RemoteInit EXCEPT !.vlans["N_A"] = [id \in live |-> Vlan(id, "Old")]]
    /\ StepEntry("step_vlans")

NextVlans == StepVlans \/ RestoreVlansRead \/ RestoreVlan

SpecVlans == InitVlans /\ [][NextVlans]_vars

\* the ids of the VLANs on the target when call n was issued
VlanIdsAt(n) ==
    DOMAIN remote0.vlans[network_id]
      \cup {ParseId(calls[m].key) : m \in {x \in 1..(n - 1) :
                /\ calls[x].op = "createNetworkApplianceVlan"
                /\ calls[x].ok}}

\* the calls that loop pass k of step issued
CallsAt(step, dev, k) ==
    {n \in Writes : calls[n].step = step /\ calls[n].at = <<dev, k>>}

\* C5: for each VLAN of the snapshot restore_vlans issues an update when a
\* VLAN with the same id exists on the target and a create otherwise,
\* whether or not the read of the target's VLAN list succeeded.
C5_UpdateIffExists ==
    /\ \A n \in Writes :
          calls[n].step = 1 =>
             (calls[n].op = "updateNetworkApplianceVlan"
                <=> ItemKey(calls[n]) \in VlanIdsAt(n))
    /\ \A k \in Indices(vlans_backup) :
          (/\ <<1, 0, k>> \in attempted
           /\ {"id", "name", "subnet", "applianceIp"} \subseteq DOMAIN vlans_backup[k])
             => Cardinality(CallsAt(1, 0, k)) = 1

(***************************************************************************)
(* restore_firewall_rules on its own, over every rule list of up to        *)
(* MaxRules rules.                                                         *)
(***************************************************************************)
RuleComments == {DefaultRuleComment, UpperDefaultComment, BlockComment}

RuleRecs ==
    {Rule(c, p, dst, r) : c \in RuleComments, p \in {"allow", "deny"},
                          dst \in {"Any", "any", "10.0.0.0/8"}, r \in BOOLEAN}
      \cup {Drop(Rule(BlockComment, p, "Any", FALSE), "comment") : p \in {"allow", "deny"}}

InitFirewall ==
    /\ \E list \in SeqsUpTo(RuleRecs, MaxRules) :
        \E fw \in {[rules |-> list]} \cup (IF list = <<>> THEN {<<>>} ELSE {}) :
            backup = [metadata |-> metadata, appliance |-> [firewall_l3 |-> fw]]
    /\ \E live \in {<<>>, RemoteInit.rules["N_A"]} :
        remote = [RemoteInit EXCEPT !.rules["N_A"] = live]
    /\ StepEntry("step_firewall")

NextFirewall == StepFirewall \/ RestoreFirewallRules

SpecFirewall == InitFirewall /\ [][NextFirewall]_vars

\* the rule lists sent to the remote service
SentRuleLists ==
    {calls[n].params.rules : n \in {x \in Writes : calls[x].step = 2}}

\* the rules of the snapshot, an empty list when it records none
SnapshotRuleList ==
    IF Has(backup, "appliance") /\ Has(backup["appliance"], "firewall_l3")
    THEN get(firewall_backup, "rules", <<>>)
    ELSE <<>>

\* a comment that has the word default in it, in any letter case
MarkedDefault(rule) ==
    /\ Has(rule, "comment")
    /\ \E off \in 0..(Len(rule.comment) - Len(default)) :
          \A n \in Indices(default) : LowerChar(rule.comment[off + n]) = default[n]

AllowToAny(rule) ==
    /\ Has(rule, "policy") /\ rule.policy = "allow"
    /\ Has(rule, "destCidr") /\ rule.destCidr \in {"Any", "any"}

\* C6: a snapshot rule whose comment contains 'default' in any letter case,
\* whose policy is allow and whose destCidr is any is not part of the rule
\* list restore_firewall_rules sends.
C6_DefaultAllowNotSent ==
    \A sent \in SentRuleLists :
        \A k \in Indices(SnapshotRuleList) :
            (MarkedDefault(SnapshotRuleList[k]) /\ AllowToAny(SnapshotRuleList[k]))
               => \A m \in Indices(sent) : sent[m] # SnapshotRuleList[k]

\* a list was sent that kept a rule, from a snapshot with a DEFAULT allow to any
C6_Witness ==
    /\ \E sent \in SentRuleLists : sent # <<>>
    /\ \E k \in Indices(SnapshotRuleList) :
          /\ SnapshotRuleList[k] = Rule(UpperDefaultComment, "allow", "any", FALSE)

\* an allow of every source, protocol and port to every destination
UnconditionalAllowAll(rule) ==
    /\ AllowToAny(rule)
    /\ Has(rule, "srcCidr") /\ rule.srcCidr \in {"Any", "any"}
    /\ Has(rule, "protocol") /\ rule.protocol \in {"Any", "any"}
    /\ Has(rule, "destPort") /\ rule.destPort \in {"Any", "any"}

\* C7: the list sent is exactly the snapshot's list without its unconditional
\* allow-all rules marked 'default': every other rule is kept, in order, and
\* the list goes out in one call that replaces the target's list.
C7_ExactlyTheExplicitRules ==
    /\ \A sent \in SentRuleLists :
          sent = SelectSeq(SnapshotRuleList,
                           LAMBDA rule : ~(MarkedDefault(rule) /\ UnconditionalAllowAll(rule)))
    /\ Cardinality({n \in Writes : calls[n].step = 2}) <= 1
    /\ \A n \in Writes :
          (calls[n].step = 2 /\ calls[n].ok) => remote.rules[network_id] = calls[n].params.rules

(***************************************************************************)
(* restore_ssids on its own, over every SSID list of up to MaxSsids        *)
(* records with distinct numbers; the target's SSIDs are enabled or not.   *)
(***************************************************************************)
SsidRecs ==
    {Restrict(Ssid(num, "Corp", TRUE), {"number", "name", "visible"} \cup opt) :
        num \in {0, 1}, opt \in SUBSET SsidOptional}
      \cup {Restrict(Ssid(num, "Corp", en), {"number", "name", "enabled", "visible"} \cup opt) :
              num \in {0, 1}, en \in BOOLEAN, opt \in SUBSET SsidOptional}
      \cup {Drop(Ssid(0, "Corp", TRUE), "name"), Drop(Ssid(1, "Corp", TRUE), "number")}

InitSsids ==
    /\ \E list \in SeqsUpTo(SsidRecs, MaxSsids) :
        /\ DistinctBy(list, "number")
        /\ backup = [metadata |-> metadata, wireless |-> [ssids |-> list]]
    /\ \E on \in BOOLEAN :
        remote = [RemoteInit EXCEPT !.ssids["N_A"] =
                     [num \in SsidNumbers |-> [UnconfiguredSsid(num) EXCEPT !.enabled = on]]]
    /\ StepEntry("step_ssids")

NextSsids == StepSsids \/ RestoreSsid

SpecSsids == InitSsids /\ [][NextSsids]_vars

\* C8: the update sent for an SSID is addressed by the record's number and
\* carries only fields present in the snapshot's record; a field the record
\* lacks (enabled, for one) is not sent and keeps its value on the target.
C8_OnlyFieldsPresent ==
    \A k \in Indices(IF Has(backup, "wireless") /\ Has(backup["wireless"], "ssids")
                     THEN ssids_backup ELSE <<>>) :
        \A n \in CallsAt(3, 0, k) :
            LET ssid == ssids_backup[k]
                now == remote.ssids[network_id][calls[n].key]
                before == remote0.ssids[network_id][calls[n].key]
            IN  /\ calls[n].key = ssid["number"]
                /\ DOMAIN calls[n].params \subseteq DOMAIN ssid
                /\ \A f \in DOMAIN before \ DOMAIN ssid : now[f] = before[f]

(***************************************************************************)
(* restore_group_policies on its own, over every policy list of up to      *)
(* MaxPolicies records and every set of policies on the target.            *)
(***************************************************************************)
PolicyRecs ==
    {Restrict(Policy(100, nm), {"groupPolicyId", "name"} \cup opt) :
        nm \in {"Guest", "Staff"}, opt \in SUBSET PolicyOptional}
      \cup {Drop(Policy(100, "Guest"), "name"),
            Restrict(Policy(101, "Guest"), {"groupPolicyId", "name"})}

InitPolicies ==
    /\ \E list \in SeqsUpTo(PolicyRecs, MaxPolicies) :
        backup = [metadata |-> metadata, group_policies |-> list]
    /\ \E live \in {<<>>, <<Policy(100, "Guest")>>, <<Policy(101, "Staff")>>,
                    <<Policy(100, "Guest"), Policy(101, "Staff")>>} :
        remote = [RemoteInit EXCEPT !.policies["N_A"] = live]
    /\ StepEntry("step_policies")

NextPolicies == StepPolicies \/ RestorePoliciesRead \/ RestorePolicy

SpecPolicies == InitPolicies /\ [][NextPolicies]_vars

\* C9: for each group policy of the snapshot no write is issued when a
\* policy of that name exists on the target, and one create otherwise;
\* no policy on the target is updated or deleted.
C9_CreateOnlyWhenAbsent ==
    /\ \A k \in Indices(IF Has(backup, "group_policies") THEN policies_backup ELSE <<>>) :
          (<<4, 0, k>> \in attempted /\ Has(policies_backup[k], "name")) =>
             IF policies_backup[k]["name"] \in PolicyNamesOn(remote0, network_id)
             THEN CallsAt(4, 0, k) = {}
             ELSE /\ Cardinality(CallsAt(4, 0, k)) = 1
                  /\ \A n \in CallsAt(4, 0, k) : calls[n].op = "createNetworkGroupPolicy"
    /\ \A n \in Indices(remote0.policies[network_id]) :
          /\ n <= Len(remote.policies[network_id])
          /\ remote.policies[network_id][n] = remote0.policies[network_id][n]

(***************************************************************************)
(* backup_network_full(network_id, network_name), backup_system.py.        *)
(* The service holds, besides the configuration the restore writes, the    *)
(* settings of the other categories, the device inventory, and faults:     *)
(* the reads it refuses during the capture, as <<block, key>>.             *)
(***************************************************************************)
NetworkReads == <<"details", "alerts">>

\* the appliance reads in the order of the block; the malware read comes
\* after the sixth
ApplianceReads ==
    <<"vlans", "firewall_l3", "firewall_l7", "traffic_shaping", "vpn_settings",
      "content_filtering", "port_forwarding", "one_to_one_nat", "one_to_many_nat">>

ReadsBeforeMalware == 6

WirelessReads == <<"ssids", "rf_profiles">>

SettingKeys ==
    {"details", "alerts", "firewall_l7", "traffic_shaping", "vpn_settings",
     "content_filtering", "security_malware", "port_forwarding",
     "one_to_one_nat", "one_to_many_nat", "rf_profiles"}

Setting(net, k) == [setting |-> k, of |-> net]

NetworkName(net) == IF net = "N_A" THEN "Branch Office" ELSE "Lab"

\* serial[-4:]
Last4(serial) ==
    IF \E x \in Indices(Serials) : Serials[x] = serial
    THEN <<"0001", "0002", "0003", "0004", "0005">>[
             CHOOSE x \in Indices(Serials) : Serials[x] = serial]
    ELSE "0001"

\* the devices claimed into the networks: an appliance and two switches,
\* one of them without a name
Devices(net) ==
    IF net = "N_A"
    THEN <<[serial |-> "Q2MX-0001", model |-> "MX68", name |-> "Edge"],
           [serial |-> Serials[1], model |-> "MS120-8", name |-> ""],
           [serial |-> Serials[2], model |-> "MS220-8", name |-> "Core"]>>
    ELSE <<>>

\* d['model'].startswith('MS'), over the models of the inventory
IsSwitch(device) == device["model"] \in {"MS120-8", "MS220-8"}

\* s['name'].startswith('Unconfigured'), over the names the service gives
Unconfigured(ssid) == ssid["name"] \in {"Unconfigured SSID"}

\* the sites of the reads of one capture of net, as <<block, key>>
ReadSites(net) ==
    {<<1, NetworkReads[n]>> : n \in Indices(NetworkReads)}
      \cup {<<2, ApplianceReads[n]>> : n \in Indices(ApplianceReads)}
      \cup {<<2, "security_malware">>, <<3, "devices">>}
      \cup {<<3, Devices(net)[n]["serial"]>> :
               n \in {x \in Indices(Devices(net)) : IsSwitch(Devices(net)[x])}}
      \cup {<<4, WirelessReads[n]>> : n \in Indices(WirelessReads)}
      \cup {<<5, "group_policies">>, <<6, "devices">>}

\* the service at the start of a capture: VLANs live on N_A, SSID 0 of N_A
\* configured, ports on both switches
RemoteCapture(live, faults) ==
    Update([RemoteInit EXCEPT
              !.vlans["N_A"] = [id \in live |-> Vlan(id, "Corp")],
              !.ssids["N_A"][0] = Ssid(0, "Corp", TRUE),
              !.ports = [sn \in {Serials[1], Serials[2]} |->
                            [p \in {PortIds[1], PortIds[2]} |-> Port(p)]]],
           [settings |-> [n \in Networks |-> [k \in SettingKeys |-> Setting(n, k)]],
            devices |-> [n \in Networks |-> Devices(n)],
            faults |-> faults])

RECURSIVE Ascending(_)
\* the members of a set of numbers, smallest first
Ascending(S) ==
    IF S = {} THEN <<>>
    ELSE LET m == CHOOSE x \in S : \A y \in S : x <= y
         IN  <<m>> \o Ascending(S \ {m})

\* what each read returns when the service answers
VlanList(rem, net) ==
    LET ids == Ascending(DOMAIN rem.vlans[net])
    IN  [n \in Indices(ids) |-> rem.vlans[net][ids[n]]]

PortList(rem, serial) ==
    LET ids == SelectSeq(PortIds, LAMBDA p : p \in DOMAIN rem.ports[serial])
    IN  [n \in Indices(ids) |-> rem.ports[serial][ids[n]]]

SsidList(rem, net) ==
    LET nums == Ascending(DOMAIN rem.ssids[net])
    IN  [n \in Indices(nums) |-> rem.ssids[net][nums[n]]]

ReadValue(rem, net, k) ==
    CASE k = "vlans" -> VlanList(rem, net)
      [] k = "firewall_l3" -> [rules |-> rem.rules[net] \o <<ServiceDefaultRule>>]
      [] k = "ssids" -> SsidList(rem, net)
      [] k = "group_policies" -> rem.policies[net]
      [] k = "devices" -> rem.devices[net]
      [] k \in SettingKeys -> rem.settings[net][k]
      [] OTHER -> PortList(rem, k)

\* the read at site <<block, k>> raises
Fails(block, k) == <<block, k>> \in remote.faults

\* a variant: the malware read has no handler of its own
CaughtByNoTry(k) == FALSE

\* the read of k sits in a try of its own inside its block
CaughtByInnerTry(k) == k = "security_malware"

\* the reads of a block of sequential reads that are issued, in order: all
\* of them, or those up to the first that raises out of the block
Issued(block, reads) ==
    LET failing == {n \in Indices(reads) :
                       Fails(block, reads[n]) /\ ~CaughtByInnerTry(reads[n])}
    IN  IF failing = {} THEN reads
        ELSE SubSeq(reads, 1, CHOOSE n \in failing : \A m \in failing : n <= m)

\* those of them that returned
Returned(block, reads) ==
    SelectSeq(Issued(block, reads), LAMBDA k : ~Fails(block, k))

\* the client operation that reads key k
ReadOp(k) ==
    CASE k = "details" -> "getNetwork"
      [] k = "alerts" -> "getNetworkAlertsSettings"
      [] k = "vlans" -> "getNetworkApplianceVlans"
      [] k = "firewall_l3" -> "getNetworkApplianceFirewallL3FirewallRules"
      [] k = "firewall_l7" -> "getNetworkApplianceFirewallL7FirewallRules"
      [] k = "traffic_shaping" -> "getNetworkApplianceTrafficShaping"
      [] k = "vpn_settings" -> "getNetworkApplianceVpnSiteToSiteVpn"
      [] k = "content_filtering" -> "getNetworkApplianceContentFiltering"
      [] k = "security_malware" -> "getNetworkApplianceSecurityMalware"
      [] k = "port_forwarding" -> "getNetworkApplianceFirewallPortForwardingRules"
      [] k = "one_to_one_nat" -> "getNetworkApplianceFirewallOneToOneNatRules"
      [] k = "one_to_many_nat" -> "getNetworkApplianceFirewallOneToManyNatRules"
      [] k = "devices" -> "getNetworkDevices"
      [] k = "ssids" -> "getNetworkWirelessSsids"
      [] k = "rf_profiles" -> "getNetworkWirelessRfProfiles"
      [] k = "group_policies" -> "getNetworkGroupPolicies"
      [] OTHER -> "getDeviceSwitchPorts"

\* a variant: the calls of the capture are calls that modify
ModifyingCalls(block, keys) ==
    [n \in Indices(keys) |->
        Call(ReadOp(keys[n]), TRUE, block, network_id, keys[n], NoParams,
             ~Fails(block, keys[n]))]

ReadCalls(block, keys) ==
    [n \in Indices(keys) |->
        Call(ReadOp(keys[n]), FALSE, block, network_id, keys[n], NoParams,
             ~Fails(block, keys[n]))]

\* the dictionary the function starts from
EmptySnapshot(now, net) ==
    [metadata |-> [timestamp |-> now, network_id |-> net,
                   network_name |-> NetworkName(net), backup_version |-> "1.0"],
     network |-> <<>>, appliance |-> <<>>, switch |-> <<>>, wireless |-> <<>>,
     devices |-> <<>>]

Timestamps == {"2024-01-01T00:00:00", "2024-06-01T12:00:00"}

RECURSIVE SetsUpTo(_, _)
\* the subsets of S of at most n members
SetsUpTo(S, n) ==
    IF n = 0 THEN {{}}
    ELSE SetsUpTo(S, n - 1) \cup {F \cup {x} : F \in SetsUpTo(S, n - 1), x \in S}

InitBackup ==
    /\ network_id \in Networks
    /\ \E live \in {{}, {10}, {10, 20}} :
        \E faults \in SetsUpTo(ReadSites(network_id), MaxFaults) :
            remote = RemoteCapture(live, faults)
    /\ remote0 = remote
    /\ OfflineInit
    /\ backup = <<>>
    /\ confirm = ""
    /\ pc = "backup_network_full"
    /\ LocalsInit
    /\ HistoryInit

\* what a block of the capture leaves alone
CaptureFrame ==
    UNCHANGED <<network_id, confirm, i, locals, remote, exc, attempted, remote0, offline>>

\* the banner and the dictionary literal
BackupEnter ==
    /\ pc = "backup_network_full"
    /\ \E now \in Timestamps : backup' = EmptySnapshot(now, network_id)
    /\ out' = Append(out, Line("BACKING UP", 0, 0))
    /\ pc' = "backup_network"
    /\ UNCHANGED <<d, calls>>
    /\ CaptureFrame

\* [1/6]: both reads are evaluated before backup['network'] is assigned
BackupNetwork ==
    /\ pc = "backup_network"
    /\ LET ok == Len(Returned(1, NetworkReads)) = Len(NetworkReads)
       IN  /\ backup' = IF ok
                        THEN [backup EXCEPT !.network =
                                 [k \in {"details", "alerts"} |->
                                     ReadValue(remote, network_id, k)]]
                        ELSE backup
           /\ out' = Append(out, Line(IF ok THEN "backed up" ELSE "warn", 1, 0))
    /\ calls' = calls \o ReadCalls(1, Issued(1, NetworkReads))
    /\ pc' = "backup_appliance"
    /\ UNCHANGED d
    /\ CaptureFrame

MalwarePlaceholder == [mode |-> "disabled", note |-> "AMP not supported in sandbox"]

\* the reads of the appliance block in the order they are written
ApplianceSequence ==
    SubSeq(ApplianceReads, 1, ReadsBeforeMalware)
      \o <<"security_malware">>
      \o SubSeq(ApplianceReads, ReadsBeforeMalware + 1, Len(ApplianceReads))

\* [2/6]: each read is stored as it returns; the first that raises ends the
\* block, except the malware read, whose handler stores a placeholder
BackupAppliance ==
    /\ pc = "backup_appliance"
    /\ LET issued == Issued(2, ApplianceSequence)
           stored == SelectSeq(issued,
                         LAMBDA k : ~Fails(2, k) \/ CaughtByInnerTry(k))
       IN  /\ backup' = [backup EXCEPT !.appliance =
                 [k \in {stored[n] : n \in Indices(stored)} |->
                     IF Fails(2, k)
                     THEN MalwarePlaceholder
                     ELSE ReadValue(remote, network_id, k)]]
           /\ calls' = calls \o ReadCalls(2, issued)
           /\ out' = Append(out, Line(IF Len(stored) = Len(ApplianceSequence)
                                      THEN "backed up" ELSE "warn", 2, 0))
    /\ pc' = "backup_switch"
    /\ UNCHANGED d
    /\ CaptureFrame

\* switches = [d for d in devices if d['model'].startswith('MS')]; nothing
\* writes during the capture, so the list read is the service's list
switches == SelectSeq(ReadValue(remote, network_id, "devices"), IsSwitch)

\* switch.get('name') or f"{switch['model']}-{switch['serial'][-4:]}"
device_name(device) ==
    IF Has(device, "name") /\ device["name"] # ""
    THEN device["name"]
    ELSE <<device["model"], "-", Last4(device["serial"])>>

\* [3/6]: the read of the devices and the start of the loop over switches
BackupSwitch ==
    /\ pc = "backup_switch"
    /\ calls' = calls \o ReadCalls(3, <<"devices">>)
    /\ IF Fails(3, "devices")
       THEN /\ out' = Append(out, Line("warn", 3, 0))
            /\ pc' = "backup_wireless"
            /\ UNCHANGED <<backup, d>>
       ELSE /\ backup' = [backup EXCEPT !.switch = [devices |-> <<>>]]
            /\ IF switches = <<>>
               THEN /\ out' = Append(out, Line("backed up", 3, 0))
                    /\ pc' = "backup_wireless"
                    /\ d' = d
               ELSE /\ out' = out
                    /\ pc' = "backup_switch_loop"
                    /\ d' = 1
    /\ CaptureFrame

\* one pass of the loop over switches; a read that raises leaves the loop
BackupSwitchPorts ==
    /\ pc = "backup_switch_loop"
    /\ LET switch == switches[d]
           serial == switch["serial"]
       IN  /\ calls' = calls \o ReadCalls(3, <<serial>>)
           /\ IF Fails(3, serial)
              THEN /\ out' = Append(out, Line("warn", 3, 0))
                   /\ pc' = "backup_wireless"
                   /\ d' = 0
                   /\ backup' = backup
              ELSE /\ backup' = [backup EXCEPT !.switch.devices = Append(@,
                          [serial |-> serial, name |-> device_name(switch),
                           model |-> switch["model"],
                           ports |-> ReadValue(remote, network_id, serial)])]
                   /\ IF d = Len(switches)
                      THEN /\ out' = Append(out, Line("backed up", 3, 0))
                           /\ pc' = "backup_wireless"
                           /\ d' = 0
                      ELSE /\ out' = out
                           /\ pc' = "backup_switch_loop"
                           /\ d' = d + 1
    /\ CaptureFrame

configured_ssids(ssids) == SelectSeq(ssids, LAMBDA ssid : ~Unconfigured(ssid))

\* [4/6]: both reads are evaluated before backup['wireless'] is assigned
BackupWireless ==
    /\ pc = "backup_wireless"
    /\ LET ok == Len(Returned(4, WirelessReads)) = Len(WirelessReads)
       IN  /\ backup' = IF ok
                        THEN [backup EXCEPT !.wireless =
                                 [ssids |-> configured_ssids(
                                               ReadValue(remote, network_id, "ssids")),
                                  rf_profiles |->
                                      ReadValue(remote, network_id, "rf_profiles")]]
                        ELSE backup
           /\ out' = Append(out, Line(IF ok THEN "backed up" ELSE "warn", 4, 0))
    /\ calls' = calls \o ReadCalls(4, Issued(4, WirelessReads))
    /\ pc' = "backup_policies"
    /\ UNCHANGED d
    /\ CaptureFrame

\* [5/6]
BackupGroupPolicies ==
    /\ pc = "backup_policies"
    /\ LET ok == ~Fails(5, "group_policies")
       IN  /\ backup' = IF ok
                        THEN Update(backup, [group_policies |->
                                 ReadValue(remote, network_id, "group_policies")])
                        ELSE backup
           /\ out' = Append(out, Line(IF ok THEN "backed up" ELSE "warn", 5, 0))
    /\ calls' = calls \o ReadCalls(5, <<"group_policies">>)
    /\ pc' = "backup_devices"
    /\ UNCHANGED d
    /\ CaptureFrame

\* the inventory with a name given to each device that has none
Named(devices) ==
    [n \in Indices(devices) |->
        Update(devices[n], [name |-> device_name(devices[n])])]

\* [6/6] and the return of the snapshot
BackupDevices ==
    /\ pc = "backup_devices"
    /\ LET ok == ~Fails(6, "devices")
       IN  /\ backup' = IF ok
                        THEN [backup EXCEPT !.devices =
                                 Named(ReadValue(remote, network_id, "devices"))]
                        ELSE backup
           /\ out' = Append(out, Line(IF ok THEN "backed up" ELSE "warn", 6, 0))
    /\ calls' = calls \o ReadCalls(6, <<"devices">>)
    /\ pc' = "returned"
    /\ UNCHANGED d
    /\ CaptureFrame

NextBackup ==
    \/ BackupEnter \/ BackupNetwork \/ BackupAppliance
    \/ BackupSwitch \/ BackupSwitchPorts
    \/ BackupWireless \/ BackupGroupPolicies \/ BackupDevices

SpecBackup == InitBackup /\ [][NextBackup]_vars

\* the returned snapshot holds what the read at site <<block, k>> returns
Recorded(block, k) ==
    LET value == ReadValue(remote, network_id, k)
    IN  CASE block = 1 -> Has(backup["network"], k) /\ backup["network"][k] = value
          [] block = 2 -> Has(backup["appliance"], k) /\ backup["appliance"][k] = value
          [] block = 3 /\ k = "devices" -> Has(backup["switch"], "devices")
          [] block = 3 /\ k # "devices" ->
                /\ Has(backup["switch"], "devices")
                /\ \E n \in Indices(backup["switch"]["devices"]) :
                      /\ backup["switch"]["devices"][n]["serial"] = k
                      /\ backup["switch"]["devices"][n]["ports"] = value
          [] block = 4 /\ k = "ssids" ->
                /\ Has(backup["wireless"], k)
                /\ backup["wireless"][k] = configured_ssids(value)
          [] block = 4 /\ k # "ssids" ->
                Has(backup["wireless"], k) /\ backup["wireless"][k] = value
          [] block = 5 -> Has(backup, k) /\ backup[k] = value
          [] OTHER -> backup["devices"] = Named(value)

\* the reads a category's value comes from: its own read, and for the ports
\* of a switch also the read of the devices that names the switch
OwnReads(site) ==
    IF site[1] = 3 THEN {site, <<3, "devices">>} ELSE {site}

\* C10: a failed read of one category does not keep any other category from
\* being read and recorded: in the snapshot returned, every category whose
\* own read succeeds holds the value read, a failed malware read leaves its
\* placeholder, and the function returns.
C10_CategoryFailureIsolated ==
    pc = "returned" =>
        /\ \A site \in ReadSites(network_id) :
              OwnReads(site) \cap remote.faults = {} => Recorded(site[1], site[2])
        /\ Fails(2, "security_malware") =>
              (Has(backup["appliance"], "security_malware") =>
                  backup["appliance"]["security_malware"] = MalwarePlaceholder)

\* C11: when only the malware-protection read fails, the returned snapshot
\* holds every other category with the value read, the appliance categories
\* read after it included, and security_malware holds the placeholder.
C11_OnlyMalwareFails ==
    (pc = "returned" /\ remote.faults = {<<2, "security_malware">>}) =>
        /\ \A site \in ReadSites(network_id) \ remote.faults :
              Recorded(site[1], site[2])
        /\ Has(backup["appliance"], "security_malware")
        /\ backup["appliance"]["security_malware"] = MalwarePlaceholder

\* a capture of N_A has returned after the malware read, and only it, failed
C11_Witness ==
    /\ pc = "returned"
    /\ network_id = "N_A"
    /\ remote.faults = {<<2, "security_malware">>}
    /\ \E n \in Indices(calls) :
          calls[n].op = "getNetworkApplianceSecurityMalware" /\ ~calls[n].ok

\* C12: backup_network_full issues only reads: whatever reads fail, no call
\* of the capture writes and the live configuration stays as it was.
C12_CaptureReadOnly ==
    /\ Writes = {}
    /\ remote = remote0

\* a capture has returned after issuing its reads, some of them refused
C12_Witness ==
    /\ pc = "returned"
    /\ remote.faults # {}
    /\ Len(calls) >= 10

(***************************************************************************)
(* json.dump and json.load.  A Python value is [lit |-> "None" | "True" |  *)
(* "False"], [num |-> n], [str |-> s], [list |-> sequence] or              *)
(* [dict |-> function from keys]; the text of a file is the sequence of    *)
(* its JSON tokens: [p |-> punctuation], [w |-> word], [num |-> n],        *)
(* [str |-> s].                                                            *)
(***************************************************************************)
Punct(c) == [p |-> c]

IsPunct(tok, c) == Has(tok, "p") /\ tok["p"] = c

\* the order in which the keys of a dict are written
KeyOrder ==
    <<"metadata", "appliance", "timestamp", "network_id", "network_name",
      "backup_version", "id", "name">>

\* a variant: the scalars are written as Python prints them
LiteralRepr(v) == IF Has(v, "lit") THEN [w |-> v["lit"]] ELSE v

\* the token json.dump writes for a scalar
Literal(v) ==
    IF Has(v, "lit")
    THEN [w |-> CASE v["lit"] = "None" -> "null"
                  [] v["lit"] = "True" -> "true"
                  [] OTHER -> "false"]
    ELSE v

RECURSIVE Join(_, _)
\* the token sequences of parts, with sep between them
Join(parts, sep) ==
    IF parts = <<>> THEN <<>>
    ELSE IF Len(parts) = 1 THEN parts[1]
    ELSE parts[1] \o <<sep>> \o Join(Tail(parts), sep)

RECURSIVE dumps(_)
\* json.dump(value, f)
dumps(v) ==
    IF Has(v, "list")
    THEN <<Punct("[")>>
           \o Join([n \in Indices(v["list"]) |-> dumps(v["list"][n])], Punct(","))
           \o <<Punct("]")>>
    ELSE IF Has(v, "dict")
    THEN LET keys == SelectSeq(KeyOrder, LAMBDA k : k \in DOMAIN v["dict"])
         IN  <<Punct("{")>>
               \o Join([n \in Indices(keys) |->
                           <<[str |-> keys[n]], Punct(":")>> \o dumps(v["dict"][keys[n]])],
                       Punct(","))
               \o <<Punct("}")>>
    ELSE <<Literal(v)>>

\* the result of a parse: a value and the position after it, or a failure
Parsed(v, next) == [ok |-> TRUE, value |-> v, next |-> next]

ParseError == [ok |-> FALSE]

RECURSIVE ParseValue(_, _)
RECURSIVE ParseItems(_, _, _)
RECURSIVE ParseMembers(_, _, _)

\* the items of a list after its bracket or after a comma
ParseItems(t, pos, acc) ==
    LET item == ParseValue(t, pos)
    IN  IF ~item.ok \/ item.next > Len(t) THEN ParseError
        ELSE IF IsPunct(t[item.next], ",")
        THEN ParseItems(t, item.next + 1, Append(acc, item.value))
        ELSE IF IsPunct(t[item.next], "]")
        THEN Parsed([list |-> Append(acc, item.value)], item.next + 1)
        ELSE ParseError

\* the members of an object after its brace or after a comma
ParseMembers(t, pos, acc) ==
    IF pos + 1 > Len(t) \/ ~Has(t[pos], "str") \/ ~IsPunct(t[pos + 1], ":")
    THEN ParseError
    ELSE LET member == ParseValue(t, pos + 2)
             dict == Update(acc, t[pos]["str"] :> member.value)
         IN  IF ~member.ok \/ member.next > Len(t) THEN ParseError
             ELSE IF IsPunct(t[member.next], ",")
             THEN ParseMembers(t, member.next + 1, dict)
             ELSE IF IsPunct(t[member.next], "}")
             THEN Parsed([dict |-> dict], member.next + 1)
             ELSE ParseError

ParseValue(t, pos) ==
    IF pos > Len(t) THEN ParseError
    ELSE LET tok == t[pos]
         IN  IF Has(tok, "str") \/ Has(tok, "num") THEN Parsed(tok, pos + 1)
             ELSE IF Has(tok, "w")
             THEN CASE tok["w"] = "null" -> Parsed([lit |-> "None"], pos + 1)
                    [] tok["w"] = "true" -> Parsed([lit |-> "True"], pos + 1)
                    [] tok["w"] = "false" -> Parsed([lit |-> "False"], pos + 1)
                    [] OTHER -> ParseError
             ELSE IF IsPunct(tok, "[")
             THEN IF pos + 1 <= Len(t) /\ IsPunct(t[pos + 1], "]")
                  THEN Parsed([list |-> <<>>], pos + 2)
                  ELSE ParseItems(t, pos + 1, <<>>)
             ELSE IF IsPunct(tok, "{")
             THEN IF pos + 1 <= Len(t) /\ IsPunct(t[pos + 1], "}")
                  THEN Parsed([dict |-> <<>>], pos + 2)
                  ELSE ParseMembers(t, pos + 1, <<>>)
             ELSE ParseError

\* json.load(f): the value, or JSONDecodeError when the text is not one
\* JSON value
loads(t) ==
    LET whole == ParseValue(t, 1)
    IN  IF whole.ok /\ whole.next = Len(t) + 1
        THEN [ok |-> TRUE, value |-> whole.value]
        ELSE ParseError

(***************************************************************************)
(* File names.  A name is a sequence of characters; Python orders strings  *)
(* by code point, which is the order of Alphabet.                          *)
(***************************************************************************)
Alphabet ==
    <<" ", "&", "-", ".", "0", "1", "2", "3", "4", "5", "6", "7", "8", "9",
      "H", "L", "Q", "_", "a", "b", "c", "j", "k", "n", "o", "p", "s", "t",
      "u">>

Ord(c) == CHOOSE n \in Indices(Alphabet) : Alphabet[n] = c

Digits == {"0", "1", "2", "3", "4", "5", "6", "7", "8", "9"}

\* c.isalnum()
isalnum(c) == c \in Digits \cup {"H", "L", "Q", "a", "b", "c", "j", "k", "n",
                                 "o", "p", "s", "t", "u"}

\* a < b on strings
Less(a, b) ==
    \E k \in 1..(Len(a) + 1) :
        /\ \A n \in 1..(k - 1) : n <= Len(b) /\ a[n] = b[n]
        /\ k <= Len(b)
        /\ k <= Len(a) => Ord(a[k]) < Ord(b[k])

RECURSIVE rstrip(_)
\* str.rstrip()
rstrip(text) ==
    IF text # <<>> /\ text[Len(text)] = " "
    THEN rstrip(SubSeq(text, 1, Len(text) - 1))
    ELSE text

\* str.replace(' ', '_')
replace(text) == [n \in Indices(text) |-> IF text[n] = " " THEN "_" ELSE text[n]]

\* the sanitized network name of save_backup
safe_name(network_name) ==
    replace(rstrip(SelectSeq(network_name,
                             LAMBDA c : isalnum(c) \/ c \in {" ", "-", "_"})))

Digit(n) == <<"0", "1", "2", "3", "4", "5", "6", "7", "8", "9">>[n + 1]

\* %m, %d, %H, %M, %S: two digits
Pad2(n) == <<Digit(n \div 10), Digit(n % 10)>>

\* %Y: four digits
Pad4(n) == Pad2(n \div 100) \o Pad2(n % 100)

\* datetime.strftime('%Y%m%d_%H%M%S')
strftime(t) ==
    Pad4(t.year) \o Pad2(t.month) \o Pad2(t.day) \o <<"_">>
      \o Pad2(t.hour) \o Pad2(t.minute) \o Pad2(t.second)

\* BACKUP_DIR / f"backup_{safe_name}_{timestamp}.json"
BackupFileName(network_name, t) ==
    <<"b", "a", "c", "k", "u", "p", "_">> \o safe_name(network_name) \o <<"_">>
      \o strftime(t) \o <<".", "j", "s", "o", "n">>

\* the moments at which backups are saved
Clock ==
    {[year |-> 2023, month |-> 12, day |-> 31, hour |-> 23, minute |-> 59, second |-> 59],
     [year |-> 2024, month |-> 6, day |-> 1, hour |-> 9, minute |-> 5, second |-> 0]}

\* the names of the networks backed up
NetworkNameTexts ==
    {<<"H", "Q">>, <<"L", "a", "b">>, <<"L", "a", "b", " ", "2", "&", " ">>}

(***************************************************************************)
(* list_backups(): the same function in backup_system.py,                  *)
(* restore_from_backup.py and compare_backups.py.                          *)
(***************************************************************************)
BackupPrefix == <<"b", "a", "c", "k", "u", "p", "_">>

JsonSuffix == <<".", "j", "s", "o", "n">>

\* the pattern backup_*.json
Matches(file) ==
    /\ Len(file) >= Len(BackupPrefix) + Len(JsonSuffix)
    /\ SubSeq(file, 1, Len(BackupPrefix)) = BackupPrefix
    /\ SubSeq(file, Len(file) - Len(JsonSuffix) + 1, Len(file)) = JsonSuffix

\* BACKUP_DIR.glob("backup_*.json")
glob(dir) == {file \in DOMAIN dir : Matches(file)}

RECURSIVE SortedReverse(_)
\* sorted(paths, reverse=True)
SortedReverse(paths) ==
    IF paths = {} THEN <<>>
    ELSE LET top == CHOOSE x \in paths : \A y \in paths : y = x \/ Less(y, x)
         IN  <<top>> \o SortedReverse(paths \ {top})

\* the snapshot of a capture that met refusals everywhere, as a Python value
MetadataOnly(iso) ==
    [dict |-> [metadata |-> [dict |->
        [timestamp |-> [str |-> iso], network_id |-> [str |-> "N_A"],
         network_name |-> [str |-> "Branch Office"],
         backup_version |-> [str |-> "1.0"]]]]]

\* the texts a file of the directory can hold: a snapshot, a snapshot cut
\* short by a crash during the write, an object without metadata, and a
\* snapshot whose timestamp is not ISO-8601
FileTexts ==
    LET whole == dumps(MetadataOnly("2024-06-01T12:00:00"))
    IN  {whole, SubSeq(whole, 1, Len(whole) \div 2), dumps([dict |-> <<>>]),
         dumps(MetadataOnly("yesterday"))}

\* datetime.fromisoformat(text) returns
IsIso(text) == text \in Timestamps

\* the body of the try of the loop runs to its print
Readable(text) ==
    LET data == loads(text)
    IN  /\ data.ok
        /\ Has(data.value, "dict")
        /\ Has(data.value["dict"], "metadata")
        /\ LET meta == data.value["dict"]["metadata"]
           IN  /\ Has(meta, "dict")
               /\ Has(meta["dict"], "network_name")
               /\ Has(meta["dict"], "timestamp")
               /\ Has(meta["dict"]["timestamp"], "str")
               /\ IsIso(meta["dict"]["timestamp"]["str"])

\* the files the directory can hold
FileNames ==
    {BackupFileName(n, t) : n \in NetworkNameTexts, t \in Clock}
      \cup {<<"j", "u", "n", "k", ".", "j", "s", "o", "n">>}

InitList ==
    /\ \E names \in SetsUpTo(FileNames, MaxFiles) :
        files \in [names -> FileTexts]
    /\ backups = <<>>
    /\ backup1 = <<>>
    /\ backup2 = <<>>
    /\ all_changes = <<>>
    /\ backup = <<>>
    /\ network_id = "N_A"
    /\ confirm = ""
    /\ pc = "list_backups"
    /\ remote = RemoteInit
    /\ remote0 = remote
    /\ LocalsInit
    /\ HistoryInit

ListFrame ==
    UNCHANGED <<backup, network_id, confirm, d, locals, remote, calls, exc,
                attempted, remote0, files, backup1, backup2, all_changes>>

\* the directory is read and sorted; an empty list is returned at once
ListBackups ==
    /\ pc = "list_backups"
    /\ backups' = SortedReverse(glob(files))
    /\ IF backups' = <<>>
       THEN /\ out' = out \o <<Line("AVAILABLE BACKUPS", 0, 0),
                               Line("No backups found", 0, 0)>>
            /\ pc' = "listed"
            /\ i' = 0
       ELSE /\ out' = Append(out, Line("AVAILABLE BACKUPS", 0, 0))
            /\ pc' = "list_loop"
            /\ i' = 1
    /\ ListFrame

\* one pass of the loop: the line of the file, or its error line
ListEntry ==
    /\ pc = "list_loop"
    /\ out' = Append(out, Line(IF Readable(files[backups[i]])
                               THEN "entry" ELSE "error", 0, i))
    /\ IF i = Len(backups)
       THEN pc' = "listed" /\ i' = 0
       ELSE pc' = "list_loop" /\ i' = i + 1
    /\ backups' = backups
    /\ ListFrame

NextList == ListBackups \/ ListEntry

SpecList == InitList /\ [][NextList]_vars

\* the timestamp embedded in a file name
Stamp(file) == SubSeq(file, Len(file) - Len(JsonSuffix) - 14, Len(file) - Len(JsonSuffix))

\* C13: the sequence list_backups returns is in descending order of the
\* timestamp embedded in each file name, newest first, for every set of
\* backup files, files of several networks included.  (No entry is older
\* than a later one; the claim asks for strictly descending, which also
\* fails when two networks are saved in the same second.)
C13_NewestFirst ==
    pc = "listed" =>
        \A m, n \in Indices(backups) :
            m < n => ~Less(Stamp(backups[m]), Stamp(backups[n]))

\* C14: list_backups does not fail on a malformed file; it reports an error
\* for that file and the file is not among the entries it returns.
C14_CorruptFilesSkipped ==
    /\ exc = ""
    /\ pc = "listed" =>
          \A file \in glob(files) :
              ~Readable(files[file]) =>
                  /\ \E n \in Indices(out) : out[n].text = "error"
                  /\ \A n \in Indices(backups) : backups[n] # file

(***************************************************************************)
(* save_backup(backup, network_name) followed by the load of the file it   *)
(* wrote, over snapshots made of JSON-representable Python values.         *)
(***************************************************************************)
JsonLeaves == {[lit |-> "None"], [lit |-> "True"], [num |-> 10], [str |-> "Corp"]}

\* the records of a snapshot: dicts with some of the keys id and name
JsonRecords ==
    {[dict |-> f] :
        f \in UNION {[K -> JsonLeaves] : K \in SUBSET {"id", "name"}}}

\* what a category holds: a scalar, a record, a list of scalars or of
\* records, or a dict holding a list
JsonCategories ==
    JsonLeaves \cup JsonRecords
      \cup {[list |-> q] : q \in SeqsUpTo(JsonLeaves, MaxJsonLen)}
      \cup {[list |-> q] :
               q \in SeqsUpTo({[dict |-> [id |-> [num |-> 10], name |-> x]] :
                                  x \in {[str |-> "Corp"], [lit |-> "None"]}},
                              MaxJsonLen)}
      \cup {[dict |-> [id |-> [list |-> q]]] : q \in SeqsUpTo(JsonLeaves, 1)}

JsonSnapshots ==
    {[dict |-> f] :
        f \in UNION {[K -> JsonCategories] : K \in SUBSET {"metadata", "appliance"}}}

InitSave ==
    /\ backup \in JsonSnapshots
    /\ files = <<>>
    /\ backups = <<>>
    /\ backup1 = <<>>
    /\ backup2 = <<>>
    /\ all_changes = <<>>
    /\ network_id = "N_A"
    /\ confirm = ""
    /\ pc = "save_backup"
    /\ remote = RemoteInit
    /\ remote0 = remote
    /\ LocalsInit
    /\ HistoryInit

SaveFrame ==
    UNCHANGED <<backup, network_id, confirm, d, i, locals, remote, calls,
                attempted, remote0, backup2, all_changes>>

\* save_backup: the file is written under its name; backups holds the path
\* returned
SaveBackup ==
    /\ pc = "save_backup"
    /\ \E network_name \in NetworkNameTexts, now \in Clock :
        LET filename == BackupFileName(network_name, now)
        IN  /\ files' = Update(files, filename :> dumps(backup))
            /\ backups' = <<filename>>
    /\ out' = Append(out, Line("BACKUP SAVED", 0, 0))
    /\ pc' = "load"
    /\ UNCHANGED <<backup1, exc>>
    /\ SaveFrame

\* with open(file1) as f: backup1 = json.load(f)
LoadBackup ==
    /\ pc = "load"
    /\ LET data == loads(files[backups[1]])
       IN  IF data.ok
           THEN /\ backup1' = data.value
                /\ pc' = "loaded"
                /\ exc' = exc
           ELSE /\ Raise("JSONDecodeError")
                /\ backup1' = backup1
    /\ UNCHANGED <<files, backups, out>>
    /\ SaveFrame

NextSave == SaveBackup \/ LoadBackup

SpecSave == InitSave /\ [][NextSave]_vars

\* C15: for every snapshot S of JSON-representable values, loading the file
\* save_backup(S) wrote succeeds and yields a snapshot equal to S.
C15_RoundTrip ==
    /\ pc # "crashed"
    /\ pc = "loaded" => backup1 = backup

\* a snapshot holding a list of records with a None and a True was saved
\* and loaded
C15_Witness ==
    /\ pc = "loaded"
    /\ Has(backup["dict"], "appliance")
    /\ backup["dict"]["appliance"] =
          [list |-> <<[dict |-> [id |-> [num |-> 10], name |-> [lit |-> "None"]]]>>]
    /\ Has(backup["dict"], "metadata")
    /\ backup["dict"]["metadata"] = [dict |-> [id |-> [lit |-> "True"]]]
    /\ backup1 # <<>>

(***************************************************************************)
(* compare_backups.py: the five comparison functions.  A change line is    *)
(* [text, key, detail]; a function that raises KeyError has no result.     *)
(* The order in which Python iterates over a set is given by order, a      *)
(* sequence that lists every key once.                                     *)
(***************************************************************************)
Change(text, key, detail) == [text |-> text, key |-> key, detail |-> detail]

\* dict.get(k): <<value>> or, for None, <<>>
GetOrNone(dict, k) == IF Has(dict, k) THEN <<dict[k]>> ELSE <<>>

\* {r[k]: r for r in list}: the last record of each key
ById(list, k) ==
    [key \in {list[n][k] : n \in Indices(list)} |->
        list[CHOOSE n \in Indices(list) :
                /\ list[n][k] = key
                /\ \A m \in Indices(list) : list[m][k] = key => m <= n]]

\* a record of the list has no key k
LacksKey(list, k) == \E n \in Indices(list) : ~Has(list[n], k)

\* the members of S in the order the iteration meets them
InOrder(S, order) == SelectSeq(order, LAMBDA x : x \in S)

RECURSIVE Flatten(_)
\* the concatenation of a sequence of sequences
Flatten(parts) ==
    IF parts = <<>> THEN <<>> ELSE parts[1] \o Flatten(Tail(parts))

VlansOf(b) == get(get(b, "appliance", <<>>), "vlans", <<>>)

\* compare_vlans raises KeyError
compare_vlans_raises(b1, b2) ==
    \/ LacksKey(VlansOf(b1), "id") \/ LacksKey(VlansOf(b2), "id")
    \/ LET vlans1 == ById(VlansOf(b1), "id")
           vlans2 == ById(VlansOf(b2), "id")
       IN  \/ \E id \in DOMAIN vlans2 \ DOMAIN vlans1 :
                 ~Has(vlans2[id], "name") \/ ~Has(vlans2[id], "subnet")
           \/ \E id \in DOMAIN vlans1 \ DOMAIN vlans2 : ~Has(vlans1[id], "name")
           \/ \E id \in DOMAIN vlans1 \cap DOMAIN vlans2 :
                 \/ ~Has(vlans1[id], "name") \/ ~Has(vlans2[id], "name")
                 \/ ~Has(vlans1[id], "subnet") \/ ~Has(vlans2[id], "subnet")

\* a variant: the subnet is tested only when the name is unchanged
vlan_changes_elif(v1, v2, vlan_id) ==
    IF v1["name"] # v2["name"]
    THEN <<Change("VLAN renamed", vlan_id, <<v1["name"], v2["name"]>>)>>
    ELSE IF v1["subnet"] # v2["subnet"]
    THEN <<Change("VLAN subnet changed", vlan_id, <<v1["subnet"], v2["subnet"]>>)>>
    ELSE <<>>

\* the two tests of compare_vlans for one VLAN both snapshots hold
vlan_changes(v1, v2, vlan_id) ==
    (IF v1["name"] # v2["name"]
     THEN <<Change("VLAN renamed", vlan_id, <<v1["name"], v2["name"]>>)>>
     ELSE <<>>)
    \o (IF v1["subnet"] # v2["subnet"]
        THEN <<Change("VLAN subnet changed", vlan_id, <<v1["subnet"], v2["subnet"]>>)>>
        ELSE <<>>)

compare_vlans(b1, b2, order) ==
    LET vlans1 == ById(VlansOf(b1), "id")
        vlans2 == ById(VlansOf(b2), "id")
        added == InOrder(DOMAIN vlans2 \ DOMAIN vlans1, order)
        removed == InOrder(DOMAIN vlans1 \ DOMAIN vlans2, order)
        common == InOrder(DOMAIN vlans1 \cap DOMAIN vlans2, order)
    IN  [n \in Indices(added) |->
            Change("+ VLAN added", added[n],
                   <<vlans2[added[n]]["name"], vlans2[added[n]]["subnet"]>>)]
        \o [n \in Indices(removed) |->
               Change("- VLAN removed", removed[n], <<vlans1[removed[n]]["name"]>>)]
        \o Flatten([n \in Indices(common) |->
               vlan_changes(vlans1[common[n]], vlans2[common[n]], common[n])])

RulesOf(b) == get(get(get(b, "appliance", <<>>), "firewall_l3", <<>>), "rules", <<>>)

\* a variant: the three fields are tested in an if / elif chain
RuleChangesFirst(r1, r2, n) ==
    IF GetOrNone(r1, "comment") # GetOrNone(r2, "comment")
    THEN <<Change("Rule comment", n,
                  <<GetOrNone(r1, "comment"), GetOrNone(r2, "comment")>>)>>
    ELSE IF GetOrNone(r1, "policy") # GetOrNone(r2, "policy")
    THEN <<Change("Rule policy", n,
                  <<GetOrNone(r1, "policy"), GetOrNone(r2, "policy")>>)>>
    ELSE IF GetOrNone(r1, "destCidr") # GetOrNone(r2, "destCidr")
    THEN <<Change("Rule destination changed", n, <<>>)>>
    ELSE <<>>

\* the lines of one position of two rule lists of the same length
RuleChanges(r1, r2, n) ==
    (IF GetOrNone(r1, "comment") # GetOrNone(r2, "comment")
     THEN <<Change("Rule comment", n,
                   <<GetOrNone(r1, "comment"), GetOrNone(r2, "comment")>>)>>
     ELSE <<>>)
    \o (IF GetOrNone(r1, "policy") # GetOrNone(r2, "policy")
        THEN <<Change("Rule policy", n,
                      <<GetOrNone(r1, "policy"), GetOrNone(r2, "policy")>>)>>
        ELSE <<>>)
    \o (IF GetOrNone(r1, "destCidr") # GetOrNone(r2, "destCidr")
        THEN <<Change("Rule destination changed", n, <<>>)>>
        ELSE <<>>)

\* a variant: the positions both lists have are compared after the count line
compare_firewall_rules_through(b1, b2) ==
    LET rules1 == RulesOf(b1)
        rules2 == RulesOf(b2)
        both == 1..(IF Len(rules1) < Len(rules2) THEN Len(rules1) ELSE Len(rules2))
    IN  (IF Len(rules1) # Len(rules2)
         THEN <<Change("Firewall rule count", 0, <<Len(rules1), Len(rules2)>>)>>
         ELSE <<>>)
        \o Flatten([n \in both |-> RuleChanges(rules1[n], rules2[n], n)])

compare_firewall_rules(b1, b2) ==
    LET rules1 == RulesOf(b1)
        rules2 == RulesOf(b2)
    IN  IF Len(rules1) # Len(rules2)
        THEN <<Change("Firewall rule count", 0, <<Len(rules1), Len(rules2)>>)>>
        ELSE Flatten([n \in Indices(rules1) |-> RuleChanges(rules1[n], rules2[n], n)])

SsidsOf(b) == get(get(b, "wireless", <<>>), "ssids", <<>>)

\* dict.get(num) of a dict of records: <<record>> or, for None, <<>>
Lookup(dict, key) == IF key \in DOMAIN dict THEN <<dict[key]>> ELSE <<>>

\* compare_ssids raises KeyError
compare_ssids_raises(b1, b2) ==
    \/ LacksKey(SsidsOf(b1), "number") \/ LacksKey(SsidsOf(b2), "number")
    \/ LET ssids1 == ById(SsidsOf(b1), "number")
           ssids2 == ById(SsidsOf(b2), "number")
       IN  \E num \in DOMAIN ssids1 \cup DOMAIN ssids2 :
              \/ num \in DOMAIN ssids1 /\ ~Has(ssids1[num], "name")
              \/ num \in DOMAIN ssids2 /\ ~Has(ssids2[num], "name")

\* a variant: the rename and the toggle are tested one after the other
ssid_changes_independent(s1, s2, num) ==
    IF s1 = <<>> THEN <<Change("+ SSID added", num, <<s2[1]["name"]>>)>>
    ELSE IF s2 = <<>> THEN <<Change("- SSID removed", num, <<s1[1]["name"]>>)>>
    ELSE (IF s1[1]["name"] # s2[1]["name"]
          THEN <<Change("SSID renamed", num, <<s1[1]["name"], s2[1]["name"]>>)>>
          ELSE <<>>)
         \o (IF GetOrNone(s1[1], "enabled") # GetOrNone(s2[1], "enabled")
             THEN <<Change("SSID toggled", num, <<GetOrNone(s2[1], "enabled")>>)>>
             ELSE <<>>)

\* the if / elif chain of compare_ssids for one SSID number
ssid_changes(s1, s2, num) ==
    IF s1 = <<>> THEN <<Change("+ SSID added", num, <<s2[1]["name"]>>)>>
    ELSE IF s2 = <<>> THEN <<Change("- SSID removed", num, <<s1[1]["name"]>>)>>
    ELSE IF s1[1]["name"] # s2[1]["name"]
    THEN <<Change("SSID renamed", num, <<s1[1]["name"], s2[1]["name"]>>)>>
    ELSE IF GetOrNone(s1[1], "enabled") # GetOrNone(s2[1], "enabled")
    THEN <<Change("SSID toggled", num, <<GetOrNone(s2[1], "enabled")>>)>>
    ELSE <<>>

compare_ssids(b1, b2) ==
    LET ssids1 == ById(SsidsOf(b1), "number")
        ssids2 == ById(SsidsOf(b2), "number")
        all_nums == Ascending(DOMAIN ssids1 \cup DOMAIN ssids2)
    IN  Flatten([n \in Indices(all_nums) |->
            ssid_changes(Lookup(ssids1, all_nums[n]), Lookup(ssids2, all_nums[n]),
                         all_nums[n])])

PoliciesOf(b) == get(b, "group_policies", <<>>)

\* compare_group_policies raises KeyError
compare_group_policies_raises(b1, b2) ==
    \/ LacksKey(PoliciesOf(b1), "groupPolicyId")
    \/ LacksKey(PoliciesOf(b2), "groupPolicyId")
    \/ LET policies1 == ById(PoliciesOf(b1), "groupPolicyId")
           policies2 == ById(PoliciesOf(b2), "groupPolicyId")
       IN  \/ \E id \in DOMAIN policies2 \ DOMAIN policies1 : ~Has(policies2[id], "name")
           \/ \E id \in DOMAIN policies1 \ DOMAIN policies2 : ~Has(policies1[id], "name")

compare_group_policies(b1, b2, order) ==
    LET policies1 == ById(PoliciesOf(b1), "groupPolicyId")
        policies2 == ById(PoliciesOf(b2), "groupPolicyId")
        added == InOrder(DOMAIN policies2 \ DOMAIN policies1, order)
        removed == InOrder(DOMAIN policies1 \ DOMAIN policies2, order)
    IN  [n \in Indices(added) |->
            Change("+ Policy added", added[n], <<policies2[added[n]]["name"]>>)]
        \o [n \in Indices(removed) |->
               Change("- Policy removed", removed[n], <<policies1[removed[n]]["name"]>>)]

SwitchesOf(b) == get(get(b, "switch", <<>>), "devices", <<>>)

\* a variant: a port the second snapshot does not hold counts as changed
ChangedPortsOrMissing(sw1, sw2) ==
    LET sw1_ports == ById(sw1["ports"], "portId")
        sw2_ports == ById(sw2["ports"], "portId")
    IN  {pid \in DOMAIN sw1_ports :
            \/ pid \notin DOMAIN sw2_ports
            \/ GetOrNone(sw1_ports[pid], "name") # GetOrNone(sw2_ports[pid], "name")
            \/ GetOrNone(sw1_ports[pid], "type") # GetOrNone(sw2_ports[pid], "type")
            \/ GetOrNone(sw1_ports[pid], "vlan") # GetOrNone(sw2_ports[pid], "vlan")}

\* the ports of one switch that both snapshots hold and that differ in
\* name, type or vlan
ChangedPorts(sw1, sw2) ==
    LET sw1_ports == ById(sw1["ports"], "portId")
        sw2_ports == ById(sw2["ports"], "portId")
    IN  {pid \in DOMAIN sw1_ports :
            /\ pid \in DOMAIN sw2_ports
            /\ \/ GetOrNone(sw1_ports[pid], "name") # GetOrNone(sw2_ports[pid], "name")
               \/ GetOrNone(sw1_ports[pid], "type") # GetOrNone(sw2_ports[pid], "type")
               \/ GetOrNone(sw1_ports[pid], "vlan") # GetOrNone(sw2_ports[pid], "vlan")}

\* compare_switch_ports raises KeyError
compare_switch_ports_raises(b1, b2) ==
    \/ LacksKey(SwitchesOf(b1), "serial") \/ LacksKey(SwitchesOf(b2), "serial")
    \/ LET switches1 == ById(SwitchesOf(b1), "serial")
           switches2 == ById(SwitchesOf(b2), "serial")
       IN  \E serial \in DOMAIN switches1 \cap DOMAIN switches2 :
              \/ ~Has(switches1[serial], "ports") \/ ~Has(switches2[serial], "ports")
              \/ /\ Has(switches1[serial], "ports") /\ Has(switches2[serial], "ports")
                 /\ \/ LacksKey(switches1[serial]["ports"], "portId")
                    \/ LacksKey(switches2[serial]["ports"], "portId")
                    \/ /\ ~LacksKey(switches1[serial]["ports"], "portId")
                       /\ ~LacksKey(switches2[serial]["ports"], "portId")
                       /\ ChangedPorts(switches1[serial], switches2[serial]) # {}
                       /\ ~Has(switches1[serial], "name")

compare_switch_ports(b1, b2, order) ==
    LET switches1 == ById(SwitchesOf(b1), "serial")
        switches2 == ById(SwitchesOf(b2), "serial")
        common == InOrder(DOMAIN switches1 \cap DOMAIN switches2, order)
    IN  Flatten([n \in Indices(common) |->
            LET port_changes ==
                    Cardinality(ChangedPorts(switches1[common[n]], switches2[common[n]]))
            IN  IF port_changes > 0
                THEN <<Change("Switch ports changed", common[n],
                              <<switches1[common[n]]["name"], port_changes>>)>>
                ELSE <<>>])

(***************************************************************************)
(* The pairs of snapshots compare_backups is given.  A category of a       *)
(* snapshot is Unbound when its capture failed and Bound(list) otherwise.  *)
(***************************************************************************)
\* the same VLAN on another subnet
Moved(vlan) == [vlan EXCEPT !.subnet = <<10, 1, vlan.id, 0, 24>>]

\* VLAN lists with unique ids; one record of VLAN 30 has no name
CompareVlanLists ==
    LET v10 == {<<>>} \cup {<<r>> : r \in {Vlan(10, "Corp"), Vlan(10, "Corporate"),
                                          Moved(Vlan(10, "Corp")),
                                          Moved(Vlan(10, "Corporate"))}}
        v20 == {<<>>, <<Vlan(20, "Guest")>>, <<Vlan(20, "Visitors")>>}
        v30 == {<<>>, <<Vlan(30, "IoT")>>, <<Drop(Vlan(30, "IoT"), "name")>>}
    IN  {a \o b \o c : a \in v10, b \in v20, c \in v30}

\* the ids of the VLAN lists, in every order a set can be iterated in
CompareVlanIds == {10, 20, 30}

\* every sequence that lists each member of S once
Orders(S) ==
    {order \in [1..Cardinality(S) -> S] :
        \A m, n \in 1..Cardinality(S) : order[m] = order[n] => m = n}

\* longest L3 rule list of a compared snapshot
MaxCompareRules == 2

OtherDest == "192.168.0.0/16"

OtherSource == "10.9.0.0/24"

\* a rule, and rules that differ from it in the policy, in destCidr, in
\* srcCidr (a field compare_firewall_rules does not read), and in policy,
\* destCidr and comment (absent) at once
CompareRules ==
    LET block == Rule(BlockComment, "deny", "Any", TRUE)
    IN  {block, [block EXCEPT !.policy = "allow"],
         [block EXCEPT !.destCidr = OtherDest],
         [block EXCEPT !.srcCidr = OtherSource],
         Drop([block EXCEPT !.policy = "allow", !.destCidr = OtherDest], "comment")}

CompareRuleLists == SeqsUpTo(CompareRules, MaxCompareRules)

\* SSID lists with unique numbers; an SSID may not record enabled
CompareSsidLists ==
    LET s0 == {<<>>} \cup {<<r>> : r \in {Ssid(0, "Corp-WiFi", TRUE),
                                         Ssid(0, "Corp-WiFi", FALSE),
                                         Ssid(0, "Guest-WiFi", TRUE),
                                         Ssid(0, "Guest-WiFi", FALSE),
                                         Drop(Ssid(0, "Corp-WiFi", TRUE), "enabled")}}
        s1 == {<<>>, <<Ssid(1, "Lab-WiFi", TRUE)>>, <<Ssid(1, "Lab-WiFi", FALSE)>>}
    IN  {a \o b : a \in s0, b \in s1}

ComparePolicyIds == {"100", "101"}

ComparePolicyLists ==
    LET p100 == {<<>>, <<Policy("100", "Guest")>>, <<Policy("100", "Staff")>>}
        p101 == {<<>>, <<Policy("101", "IoT")>>}
    IN  {a \o b : a \in p100, b \in p101}

\* a switch as backup_network_full records it
SwitchConfig(serial, ports) ==
    [serial |-> serial, name |-> "core-sw", model |-> "MS120-8",
     ports |-> ports]

CompareSerials == {"Q2SW-0001", "Q2SW-0002"}

\* port lists of one switch: port 1 as it was, renamed, of another type, on
\* another VLAN, disabled, without a name, or absent; port 2 present or not
ComparePortLists ==
    LET p1 == {<<>>} \cup {<<r>> : r \in {Port("1"), [Port("1") EXCEPT !.name = "server"],
                                         [Port("1") EXCEPT !.type = "trunk"],
                                         [Port("1") EXCEPT !.vlan = 30],
                                         [Port("1") EXCEPT !.enabled = FALSE],
                                         Drop(Port("1"), "name")}}
        p2 == {<<>>, <<Port("2")>>, <<[Port("2") EXCEPT !.name = "printer"]>>}
    IN  {a \o b : a \in p1, b \in p2}

CompareSwitchLists ==
    {<<>>} \cup {<<SwitchConfig("Q2SW-0001", ports)>> : ports \in ComparePortLists}
           \cup {<<SwitchConfig("Q2SW-0001", <<Port("1")>>),
                   SwitchConfig("Q2SW-0002", ports)>> :
                    ports \in {<<>>, <<Port("1")>>, <<[Port("1") EXCEPT !.vlan = 30]>>}}

\* the snapshot backup_network_full leaves for the categories it could read
Snap(c) ==
    Update(
        [metadata |-> metadata,
         appliance |-> Update(IF c.v = Unbound THEN <<>> ELSE [vlans |-> c.v[1]],
                              IF c.r = Unbound THEN <<>>
                              ELSE [firewall_l3 |-> [rules |-> c.r[1]]]),
         switch |-> IF c.w = Unbound THEN <<>> ELSE [devices |-> c.w[1]],
         wireless |-> IF c.s = Unbound THEN <<>> ELSE [ssids |-> c.s[1]]],
        IF c.p = Unbound THEN <<>> ELSE [group_policies |-> c.p[1]])

\* what the two snapshots of a pair share: nothing read, or a small network
CompareRests ==
    {[v |-> Unbound, r |-> Unbound, s |-> Unbound, p |-> Unbound, w |-> Unbound],
     [v |-> Bound(<<Vlan(10, "Corp")>>),
      r |-> Bound(<<Rule(BlockComment, "deny", "Any", TRUE)>>),
      s |-> Bound(<<Ssid(0, "Corp-WiFi", TRUE)>>),
      p |-> Bound(<<Policy("100", "Guest")>>),
      w |-> Bound(<<SwitchConfig("Q2SW-0001", <<Port("1")>>)>>)]}

\* a category of a snapshot: not read, or one of the lists
Choices(lists) == {Unbound} \cup {Bound(l) : l \in lists}

\* records that break the data model: no key, a key twice
BrokenVlanLists ==
    {<<Drop(Vlan(30, "IoT"), "id")>>, <<Drop(Vlan(30, "IoT"), "subnet")>>,
     <<Vlan(10, "Corp"), Vlan(10, "Corporate")>>}

BrokenSsidLists ==
    {<<Drop(Ssid(0, "Corp-WiFi", TRUE), "number")>>,
     <<Drop(Ssid(0, "Corp-WiFi", TRUE), "name")>>,
     <<Ssid(0, "Corp-WiFi", TRUE), Ssid(0, "Guest-WiFi", FALSE)>>}

BrokenPolicyLists ==
    {<<Drop(Policy("100", "Guest"), "groupPolicyId")>>,
     <<Drop(Policy("100", "Guest"), "name")>>}

BrokenSwitchLists ==
    {<<Drop(SwitchConfig("Q2SW-0001", <<Port("1")>>), "serial")>>,
     <<Drop(SwitchConfig("Q2SW-0001", <<Port("1")>>), "ports")>>,
     <<Drop(SwitchConfig("Q2SW-0001", <<Port("1")>>), "name")>>,
     <<SwitchConfig("Q2SW-0001", <<Drop(Port("1"), "portId")>>)>>,
     <<SwitchConfig("Q2SW-0001", <<Port("1"), [Port("1") EXCEPT !.vlan = 30]>>)>>}

\* the snapshots compared with themselves
SelfSnapshots ==
    {[metadata |-> metadata], [appliance |-> <<>>]}
    \cup {Snap([v |-> v, r |-> r, s |-> s, p |-> p, w |-> w]) :
            v \in Choices({<<>>, <<Vlan(10, "Corp"), Vlan(20, "Guest")>>}
                          \cup BrokenVlanLists),
            r \in Choices({<<>>, <<Rule(BlockComment, "deny", "Any", TRUE),
                                   Drop(Rule(BlockComment, "allow", "Any", TRUE),
                                        "comment")>>}),
            s \in Choices({<<>>, <<Ssid(0, "Corp-WiFi", TRUE),
                                   Drop(Ssid(1, "Lab-WiFi", TRUE), "enabled")>>}
                          \cup BrokenSsidLists),
            p \in Choices({<<Policy("100", "Guest")>>} \cup BrokenPolicyLists),
            w \in Choices({<<SwitchConfig("Q2SW-0001", <<Port("1"), Port("2")>>)>>}
                          \cup BrokenSwitchLists)}

\* two snapshots that differ in one category at most
PairsIn(field, lists) ==
    {<<Snap([rest EXCEPT ![field] = a]), Snap([rest EXCEPT ![field] = b])>> :
        a \in Choices(lists), b \in Choices(lists), rest \in CompareRests}

ComparePairs ==
    {<<snapshot, snapshot>> : snapshot \in SelfSnapshots}
    \cup PairsIn("v", CompareVlanLists) \cup PairsIn("r", CompareRuleLists)
    \cup PairsIn("s", CompareSsidLists) \cup PairsIn("p", ComparePolicyLists)
    \cup PairsIn("w", CompareSwitchLists)

(***************************************************************************)
(* compare_backups, after the two files are loaded: backup1 and backup2    *)
(* hold the snapshots, all_changes the (category, changes) pairs.          *)
(***************************************************************************)
InitCompare ==
    /\ \E pair \in ComparePairs :
        /\ backup1 = pair[1]
        /\ backup2 = pair[2]
    /\ all_changes = <<>>
    /\ files = <<>>
    /\ backups = <<>>
    /\ backup = <<>>
    /\ network_id = "N_A"
    /\ confirm = ""
    /\ pc = "compare_backups"
    /\ remote = RemoteInit
    /\ remote0 = remote
    /\ LocalsInit
    /\ HistoryInit

CompareFrame ==
    UNCHANGED <<backup, network_id, confirm, d, i, locals, remote, calls,
                attempted, remote0, files, backups, backup1, backup2>>

\* meta1 = backup1["metadata"]; meta2 = backup2["metadata"] and the header
CompareEnter ==
    /\ pc = "compare_backups"
    /\ IF /\ Has(backup1, "metadata") /\ Has(backup2, "metadata")
          /\ {"network_name", "timestamp"} \subseteq DOMAIN backup1["metadata"]
          /\ {"network_name", "timestamp"} \subseteq DOMAIN backup2["metadata"]
       THEN /\ pc' = "compare_vlans"
            /\ exc' = exc
       ELSE Raise("KeyError")
    /\ UNCHANGED <<all_changes, out>>
    /\ CompareFrame

\* a variant: the pair is appended whether or not there are changes
CollectedAlways(category, changes) ==
    Append(all_changes, [category |-> category, changes |-> changes])

\* if changes: all_changes.append((category, changes))
Collected(category, changes) ==
    IF changes # <<>>
    THEN Append(all_changes, [category |-> category, changes |-> changes])
    ELSE all_changes

CompareVlans ==
    /\ pc = "compare_vlans"
    /\ IF compare_vlans_raises(backup1, backup2)
       THEN /\ Raise("KeyError")
            /\ all_changes' = all_changes
       ELSE /\ \E order \in Orders(CompareVlanIds) :
                all_changes' = Collected("VLANs", compare_vlans(backup1, backup2, order))
            /\ pc' = "compare_firewall_rules"
            /\ exc' = exc
    /\ out' = out
    /\ CompareFrame

CompareFirewallRules ==
    /\ pc = "compare_firewall_rules"
    /\ all_changes' = Collected("Firewall Rules", compare_firewall_rules(backup1, backup2))
    /\ pc' = "compare_ssids"
    /\ UNCHANGED <<exc, out>>
    /\ CompareFrame

CompareSsids ==
    /\ pc = "compare_ssids"
    /\ IF compare_ssids_raises(backup1, backup2)
       THEN /\ Raise("KeyError")
            /\ all_changes' = all_changes
       ELSE /\ all_changes' = Collected("Wireless SSIDs", compare_ssids(backup1, backup2))
            /\ pc' = "compare_group_policies"
            /\ exc' = exc
    /\ out' = out
    /\ CompareFrame

CompareGroupPolicies ==
    /\ pc = "compare_group_policies"
    /\ IF compare_group_policies_raises(backup1, backup2)
       THEN /\ Raise("KeyError")
            /\ all_changes' = all_changes
       ELSE /\ \E order \in Orders(ComparePolicyIds) :
                all_changes' = Collected("Group Policies",
                                         compare_group_policies(backup1, backup2, order))
            /\ pc' = "compare_switch_ports"
            /\ exc' = exc
    /\ out' = out
    /\ CompareFrame

CompareSwitchPorts ==
    /\ pc = "compare_switch_ports"
    /\ IF compare_switch_ports_raises(backup1, backup2)
       THEN /\ Raise("KeyError")
            /\ all_changes' = all_changes
       ELSE /\ \E order \in Orders(CompareSerials) :
                all_changes' = Collected("Switch Configuration",
                                         compare_switch_ports(backup1, backup2, order))
            /\ pc' = "display"
            /\ exc' = exc
    /\ out' = out
    /\ CompareFrame

\* the lines printed for one (category, changes) pair
Displayed(entry) ==
    <<Line(entry.category, 0, 0)>>
    \o [n \in Indices(entry.changes) |->
           Line(entry.changes[n].text, 0, entry.changes[n].key)]

\* Display results
CompareDisplay ==
    /\ pc = "display"
    /\ out' = IF all_changes # <<>>
              THEN out \o <<Line("CHANGES DETECTED", 0, 0)>>
                       \o Flatten([n \in Indices(all_changes) |-> Displayed(all_changes[n])])
              ELSE out \o <<Line("NO CHANGES DETECTED", 0, 0),
                            Line("The two backups are identical", 0, 0)>>
    /\ pc' = "compared"
    /\ UNCHANGED <<all_changes, exc>>
    /\ CompareFrame

NextCompare ==
    \/ CompareEnter
    \/ CompareVlans
    \/ CompareFirewallRules
    \/ CompareSsids
    \/ CompareGroupPolicies
    \/ CompareSwitchPorts
    \/ CompareDisplay

SpecCompare == InitCompare /\ [][NextCompare]_vars

(***************************************************************************)
(* Properties of the comparison.                                           *)
(***************************************************************************)
\* every record of the list has the keys
AllHave(list, keys) == \A n \in Indices(list) : keys \subseteq DOMAIN list[n]

\* the snapshot has the shape of the data model: metadata, and records that
\* carry their key and name (a key may occur twice, a category may be
\* missing, any other field may be missing)
Conforming(b) ==
    /\ Has(b, "metadata")
    /\ {"network_name", "timestamp"} \subseteq DOMAIN b["metadata"]
    /\ AllHave(VlansOf(b), {"id", "name", "subnet"})
    /\ AllHave(SsidsOf(b), {"number", "name"})
    /\ AllHave(PoliciesOf(b), {"groupPolicyId", "name"})
    /\ AllHave(SwitchesOf(b), {"serial", "name", "ports"})
    /\ \A n \in Indices(SwitchesOf(b)) :
          Has(SwitchesOf(b)[n], "ports") => AllHave(SwitchesOf(b)[n]["ports"], {"portId"})

NoChangesReported ==
    <<Line("NO CHANGES DETECTED", 0, 0), Line("The two backups are identical", 0, 0)>>

\* C16: a snapshot of the data model compared with itself: each of the five
\* comparison functions returns the empty list, whatever order the sets are
\* iterated in, nothing is collected in all_changes, the comparison does
\* not raise, and what compare_backups prints is that no changes were
\* detected.
C16_SelfCompareEmpty ==
    (backup1 = backup2 /\ Conforming(backup1)) =>
        /\ pc # "crashed"
        /\ all_changes = <<>>
        /\ \A order \in Orders(CompareVlanIds) :
              compare_vlans(backup1, backup2, order) = <<>>
        /\ compare_firewall_rules(backup1, backup2) = <<>>
        /\ compare_ssids(backup1, backup2) = <<>>
        /\ \A order \in Orders(ComparePolicyIds) :
              compare_group_policies(backup1, backup2, order) = <<>>
        /\ \A order \in Orders(CompareSerials) :
              compare_switch_ports(backup1, backup2, order) = <<>>
        /\ pc = "compared" => out = NoChangesReported

\* a snapshot with VLANs, rules of which one has no comment, SSIDs of which
\* one has no enabled, a policy and a switch was compared with itself
C16_Witness ==
    /\ pc = "compared"
    /\ backup1 = backup2
    /\ Conforming(backup1)
    /\ Len(VlansOf(backup1)) = 2
    /\ \E n \in Indices(RulesOf(backup1)) : ~Has(RulesOf(backup1)[n], "comment")
    /\ \E n \in Indices(SsidsOf(backup1)) : ~Has(SsidsOf(backup1)[n], "enabled")
    /\ PoliciesOf(backup1) # <<>>
    /\ SwitchesOf(backup1) # <<>>
    /\ out = NoChangesReported

\* the ids of a list of records that all have one
IdsOf(list) == {list[n]["id"] : n \in Indices(list)}

\* no id occurs twice
UniqueIds(list) ==
    \A m, n \in Indices(list) : list[m]["id"] = list[n]["id"] => m = n

\* the record of the id
RecOf(list, id) == list[CHOOSE n \in Indices(list) : list[n]["id"] = id]

\* how many lines of the text the changes hold for the key
CountOf(changes, text, key) ==
    Cardinality({n \in Indices(changes) :
                    changes[n].text = text /\ changes[n].key = key})

VlanTexts == {"+ VLAN added", "- VLAN removed", "VLAN renamed", "VLAN subnet changed"}

\* the VLAN lists differ in the name of one VLAN and the snapshots in
\* nothing else
RenamedOnly(n) ==
    /\ Has(backup1, "appliance") /\ Has(backup1["appliance"], "vlans")
    /\ Has(backup2, "appliance") /\ Has(backup2["appliance"], "vlans")
    /\ n \in Indices(VlansOf(backup1))
    /\ AllHave(VlansOf(backup1), {"id", "name", "subnet"})
    /\ UniqueIds(VlansOf(backup1))
    /\ \E new_name \in {"Corp", "Corporate", "Guest", "Visitors"} :
          /\ new_name # VlansOf(backup1)[n]["name"]
          /\ backup2 = [backup1 EXCEPT !["appliance"]["vlans"][n]["name"] = new_name]

\* C17: for VLAN lists with unique ids, in every iteration order,
\* compare_vlans has one addition line for each id only in the new list and
\* for no other id, one removal line for each id only in the old list and
\* for no other, one rename line for each shared id whose names differ and
\* one subnet line for each shared id whose subnets differ, and no other
\* line; what compare_backups collects for the VLANs is that list; and when
\* the snapshots differ in the name of one VLAN only, the finished
\* comparison holds the category VLANs with the one rename line and no
\* other category.
C17_VlanPartition ==
    LET l1 == VlansOf(backup1)
        l2 == VlansOf(backup2)
    IN  (/\ AllHave(l1, {"id", "name", "subnet"}) /\ AllHave(l2, {"id", "name", "subnet"})
         /\ UniqueIds(l1) /\ UniqueIds(l2)) =>
        /\ \A order \in Orders(CompareVlanIds) :
              LET changes == compare_vlans(backup1, backup2, order)
              IN  /\ \A n \in Indices(changes) :
                        changes[n].text \in VlanTexts /\ changes[n].key \in CompareVlanIds
                  /\ \A id \in CompareVlanIds :
                        /\ CountOf(changes, "+ VLAN added", id) =
                              (IF id \in IdsOf(l2) \ IdsOf(l1) THEN 1 ELSE 0)
                        /\ CountOf(changes, "- VLAN removed", id) =
                              (IF id \in IdsOf(l1) \ IdsOf(l2) THEN 1 ELSE 0)
                        /\ CountOf(changes, "VLAN renamed", id) =
                              (IF /\ id \in IdsOf(l1) \cap IdsOf(l2)
                                  /\ RecOf(l1, id)["name"] # RecOf(l2, id)["name"]
                               THEN 1 ELSE 0)
                        /\ CountOf(changes, "VLAN subnet changed", id) =
                              (IF /\ id \in IdsOf(l1) \cap IdsOf(l2)
                                  /\ RecOf(l1, id)["subnet"] # RecOf(l2, id)["subnet"]
                               THEN 1 ELSE 0)
        /\ pc = "compare_firewall_rules" =>
              \E order \in Orders(CompareVlanIds) :
                 all_changes = IF compare_vlans(backup1, backup2, order) = <<>> THEN <<>>
                               ELSE <<[category |-> "VLANs",
                                       changes |-> compare_vlans(backup1, backup2, order)]>>
        /\ \A n \in Indices(l1) :
              (RenamedOnly(n) /\ pc \in {"display", "compared"}) =>
                  all_changes =
                      <<[category |-> "VLANs",
                         changes |-> <<Change("VLAN renamed", l1[n]["id"],
                                              <<l1[n]["name"], l2[n]["name"]>>)>>]>>

\* a comparison has finished in which one VLAN was added, one removed and
\* one both renamed and moved to another subnet
C17_Witness ==
    /\ pc = "compared"
    /\ AllHave(VlansOf(backup1), {"id", "name", "subnet"})
    /\ AllHave(VlansOf(backup2), {"id", "name", "subnet"})
    /\ IdsOf(VlansOf(backup1)) = {10, 20}
    /\ IdsOf(VlansOf(backup2)) = {10, 30}
    /\ RecOf(VlansOf(backup1), 10)["name"] # RecOf(VlansOf(backup2), 10)["name"]
    /\ RecOf(VlansOf(backup1), 10)["subnet"] # RecOf(VlansOf(backup2), 10)["subnet"]
    /\ Len(all_changes) = 1
    /\ Len(all_changes[1].changes) = 4

\* a comparison has finished of two snapshots, with rules, SSIDs, a policy
\* and a switch, that differ in the name of one VLAN only
C17_RenameWitness ==
    /\ pc = "compared"
    /\ RenamedOnly(1)
    /\ RulesOf(backup1) # <<>>
    /\ SsidsOf(backup1) # <<>>
    /\ Len(all_changes) = 1

\* the positions of compare_backups after the call of compare_firewall_rules
AfterFirewallRules ==
    {"compare_ssids", "compare_group_policies", "compare_switch_ports",
     "display", "compared"}

\* the entries all_changes holds for the category
EntriesOf(category) ==
    SelectSeq(all_changes, LAMBDA entry : entry.category = category)

\* C18: when the two L3 rule lists differ in length, whatever the rules
\* are, compare_firewall_rules returns one entry, the count change from the
\* old length to the new one, and nothing else; compare_backups collects
\* that one entry under Firewall Rules.
C18_CountChangeOnly ==
    LET rules1 == RulesOf(backup1)
        rules2 == RulesOf(backup2)
        count_change == <<Change("Firewall rule count", 0, <<Len(rules1), Len(rules2)>>)>>
    IN  Len(rules1) # Len(rules2) =>
            /\ compare_firewall_rules(backup1, backup2) = count_change
            /\ pc \in AfterFirewallRules =>
                  EntriesOf("Firewall Rules") =
                      <<[category |-> "Firewall Rules", changes |-> count_change]>>

\* a comparison has finished of a list of two rules with a list of one rule
\* whose policy is not the policy of the first of the two
C18_Witness ==
    /\ pc = "compared"
    /\ Len(RulesOf(backup1)) = 2
    /\ Len(RulesOf(backup2)) = 1
    /\ RulesOf(backup1)[1]["policy"] # RulesOf(backup2)[1]["policy"]
    /\ Len(EntriesOf("Firewall Rules")) = 1

\* the values the records of the list have under the key
KeysOf(list, k) == {list[n][k] : n \in Indices(list)}

\* no value occurs twice under the key
UniqueBy(list, k) ==
    \A m, n \in Indices(list) : list[m][k] = list[n][k] => m = n

\* the record that has the value under the key
RecWith(list, k, value) == list[CHOOSE n \in Indices(list) : list[n][k] = value]

\* C19: for SSID lists with unique numbers, compare_ssids has at most one
\* entry for each SSID number: an addition when the number is only in the
\* new snapshot, a removal when it is only in the old one, for a number in
\* both a rename when the names differ, whether or not enabled changed as
\* well, a toggle when the names are equal and the enabled values differ,
\* and no entry otherwise; compare_backups collects those entries under
\* Wireless SSIDs.
C19_OneEntryPerSsid ==
    LET l1 == SsidsOf(backup1)
        l2 == SsidsOf(backup2)
    IN  (/\ AllHave(l1, {"number", "name"}) /\ AllHave(l2, {"number", "name"})
         /\ UniqueBy(l1, "number") /\ UniqueBy(l2, "number")) =>
        LET changes == compare_ssids(backup1, backup2)
        IN  /\ \A num \in SsidNumbers :
                  LET entries == SelectSeq(changes, LAMBDA change : change.key = num)
                      old == RecWith(l1, "number", num)
                      new == RecWith(l2, "number", num)
                  IN  /\ Len(entries) <= 1
                      /\ entries =
                            IF num \notin KeysOf(l1, "number") \cup KeysOf(l2, "number")
                            THEN <<>>
                            ELSE IF num \notin KeysOf(l1, "number")
                            THEN <<Change("+ SSID added", num, <<new["name"]>>)>>
                            ELSE IF num \notin KeysOf(l2, "number")
                            THEN <<Change("- SSID removed", num, <<old["name"]>>)>>
                            ELSE IF old["name"] # new["name"]
                            THEN <<Change("SSID renamed", num, <<old["name"], new["name"]>>)>>
                            ELSE IF GetOrNone(old, "enabled") # GetOrNone(new, "enabled")
                            THEN <<Change("SSID toggled", num, <<GetOrNone(new, "enabled")>>)>>
                            ELSE <<>>
            /\ \A n \in Indices(changes) : changes[n].key \in SsidNumbers
            /\ pc \in {"compare_group_policies", "compare_switch_ports", "display",
                       "compared"} =>
                  EntriesOf("Wireless SSIDs") =
                      IF changes = <<>> THEN <<>>
                      ELSE <<[category |-> "Wireless SSIDs", changes |-> changes]>>

\* a comparison has finished in which SSID 0 changed both its name and its
\* enabled state and SSID 1 its enabled state only: two entries
C19_Witness ==
    /\ pc = "compared"
    /\ AllHave(SsidsOf(backup1), {"number", "name", "enabled"})
    /\ AllHave(SsidsOf(backup2), {"number", "name", "enabled"})
    /\ KeysOf(SsidsOf(backup1), "number") = {0, 1}
    /\ KeysOf(SsidsOf(backup2), "number") = {0, 1}
    /\ RecWith(SsidsOf(backup1), "number", 0)["name"]
          # RecWith(SsidsOf(backup2), "number", 0)["name"]
    /\ RecWith(SsidsOf(backup1), "number", 0)["enabled"]
          # RecWith(SsidsOf(backup2), "number", 0)["enabled"]
    /\ RecWith(SsidsOf(backup1), "number", 1)["enabled"]
          # RecWith(SsidsOf(backup2), "number", 1)["enabled"]
    /\ Len(EntriesOf("Wireless SSIDs")) = 1
    /\ Len(EntriesOf("Wireless SSIDs")[1].changes) = 2

(***************************************************************************)
(* Reporting of failed calls.                                              *)
(***************************************************************************)
\* a line of the capture reports a failure in the block of the call
WarnedInBlock(call) ==
    \E m \in Indices(out) : out[m].text = "warn" /\ out[m].step = call.step

\* C20: when the capture has returned, every read the service refused has
\* a reported line that names the category it belongs to.
C20_EveryFailureReported ==
    pc = "returned" =>
        \A n \in Indices(calls) : ~calls[n].ok => WarnedInBlock(calls[n])

\* the same for every refused read but the malware-protection read
C20_EveryOtherFailureReported ==
    pc = "returned" =>
        \A n \in Indices(calls) :
            (~calls[n].ok /\ calls[n].key # "security_malware") =>
                WarnedInBlock(calls[n])

\* a capture has returned in which a read other than the malware-protection
\* read was refused
C20_OtherFailureWitness ==
    /\ pc = "returned"
    /\ \E n \in Indices(calls) : ~calls[n].ok /\ calls[n].key # "security_malware"

\* the field a line of compare_firewall_rules is about
RuleField(text) ==
    CASE text = "Rule comment" -> "comment"
      [] text = "Rule policy" -> "policy"
      [] text = "Rule destination changed" -> "destCidr"

RuleTexts == {"Rule comment", "Rule policy", "Rule destination changed"}

\* C23: when the two L3 rule lists have the same length,
\* compare_firewall_rules has, for each position, one entry for each of
\* comment, policy and destCidr that differs between the two rules of the
\* position and none for a field that is the same; it has no other entry
\* (none for any other field, no count entry); the entries are in
\* increasing order of position and, within a position, in the order
\* comment, policy, destCidr.
C23_PositionalCompare ==
    LET rules1 == RulesOf(backup1)
        rules2 == RulesOf(backup2)
        changes == compare_firewall_rules(backup1, backup2)
        Rank(text) == CASE text = "Rule comment" -> 1
                        [] text = "Rule policy" -> 2
                        [] text = "Rule destination changed" -> 3
    IN  Len(rules1) = Len(rules2) =>
            /\ \A n \in Indices(changes) :
                  changes[n].text \in RuleTexts /\ changes[n].key \in Indices(rules1)
            /\ \A pos \in Indices(rules1), text \in RuleTexts :
                  CountOf(changes, text, pos) =
                      (IF GetOrNone(rules1[pos], RuleField(text))
                             # GetOrNone(rules2[pos], RuleField(text))
                       THEN 1 ELSE 0)
            /\ \A m, n \in Indices(changes) :
                  m < n => \/ changes[m].key < changes[n].key
                           \/ /\ changes[m].key = changes[n].key
                              /\ Rank(changes[m].text) < Rank(changes[n].text)
            /\ pc \in AfterFirewallRules =>
                  EntriesOf("Firewall Rules") =
                      IF changes = <<>> THEN <<>>
                      ELSE <<[category |-> "Firewall Rules", changes |-> changes]>>

\* a comparison has finished of two lists of two rules: the first rules
\* differ in comment, policy and destCidr, the second ones in srcCidr only,
\* and three entries were collected
C23_Witness ==
    /\ pc = "compared"
    /\ Len(RulesOf(backup1)) = 2
    /\ Len(RulesOf(backup2)) = 2
    /\ \A f \in {"comment", "policy", "destCidr"} :
          GetOrNone(RulesOf(backup1)[1], f) # GetOrNone(RulesOf(backup2)[1], f)
    /\ RulesOf(backup1)[2] # RulesOf(backup2)[2]
    /\ RulesOf(backup1)[2]["srcCidr"] # RulesOf(backup2)[2]["srcCidr"]
    /\ Len(EntriesOf("Firewall Rules")) = 1
    /\ Len(EntriesOf("Firewall Rules")[1].changes) = 3

\* the switches and their ports have the keys of the data model, once each
SwitchesKeyed(b) ==
    /\ AllHave(SwitchesOf(b), {"serial", "name", "ports"})
    /\ UniqueBy(SwitchesOf(b), "serial")
    /\ \A n \in Indices(SwitchesOf(b)) :
          /\ AllHave(SwitchesOf(b)[n]["ports"], {"portId"})
          /\ UniqueBy(SwitchesOf(b)[n]["ports"], "portId")

\* the port ids both switches hold whose name, type or vlan is not the same
DifferingPorts(sw1, sw2) ==
    {pid \in KeysOf(sw1["ports"], "portId") \cap KeysOf(sw2["ports"], "portId") :
        \E f \in {"name", "type", "vlan"} :
            GetOrNone(RecWith(sw1["ports"], "portId", pid), f)
                # GetOrNone(RecWith(sw2["ports"], "portId", pid), f)}

\* C24: compare_switch_ports, in every iteration order, has for a serial
\* that both snapshots hold one entry when some port id of both differs in
\* name, type or vlan, stating the number of those port ids, and no entry
\* when none does; it has no entry for a serial only one snapshot holds;
\* ports of one snapshot only are not counted; compare_backups collects
\* the entries under Switch Configuration.
C24_PortCountPerSwitch ==
    (SwitchesKeyed(backup1) /\ SwitchesKeyed(backup2)) =>
        LET l1 == SwitchesOf(backup1)
            l2 == SwitchesOf(backup2)
            both == KeysOf(l1, "serial") \cap KeysOf(l2, "serial")
        IN  /\ \A order \in Orders(CompareSerials) :
                  LET changes == compare_switch_ports(backup1, backup2, order)
                  IN  /\ \A n \in Indices(changes) : changes[n].key \in both
                      /\ \A serial \in both :
                            LET sw1 == RecWith(l1, "serial", serial)
                                sw2 == RecWith(l2, "serial", serial)
                                count == Cardinality(DifferingPorts(sw1, sw2))
                            IN  SelectSeq(changes, LAMBDA change : change.key = serial) =
                                    IF count > 0
                                    THEN <<Change("Switch ports changed", serial,
                                                  <<sw1["name"], count>>)>>
                                    ELSE <<>>
            /\ pc \in {"display", "compared"} =>
                  \E order \in Orders(CompareSerials) :
                      EntriesOf("Switch Configuration") =
                          IF compare_switch_ports(backup1, backup2, order) = <<>> THEN <<>>
                          ELSE <<[category |-> "Switch Configuration",
                                  changes |-> compare_switch_ports(backup1, backup2, order)]>>

\* a comparison has finished in which a switch of both snapshots has one
\* port that changed and one that only the new snapshot holds, and a second
\* switch is in the old snapshot only: one entry, counting one port
C24_Witness ==
    /\ pc = "compared"
    /\ SwitchesKeyed(backup1) /\ SwitchesKeyed(backup2)
    /\ KeysOf(SwitchesOf(backup1), "serial") = {"Q2SW-0001", "Q2SW-0002"}
    /\ KeysOf(SwitchesOf(backup2), "serial") = {"Q2SW-0001"}
    /\ KeysOf(RecWith(SwitchesOf(backup1), "serial", "Q2SW-0001")["ports"], "portId") = {"1"}
    /\ KeysOf(RecWith(SwitchesOf(backup2), "serial", "Q2SW-0001")["ports"], "portId")
          = {"1", "2"}
    /\ Len(EntriesOf("Switch Configuration")) = 1
    /\ EntriesOf("Switch Configuration")[1].changes[1].detail[2] = 1

\* a comparison has finished in which two ports of one switch changed
C24_TwoPortsWitness ==
    /\ pc = "compared"
    /\ Len(EntriesOf("Switch Configuration")) = 1
    /\ EntriesOf("Switch Configuration")[1].changes[1].detail[2] = 2

\* C26: when compare_backups has printed NO CHANGES DETECTED, the two
\* snapshots have the same VLANs, the same L3 rule list (the complete rules,
\* in order), the same SSIDs, the same group policies and the same switches
\* with the same ports.
C26_NoChangesMeansEqual ==
    (pc = "compared" /\ out = NoChangesReported) =>
        /\ VlansOf(backup1) = VlansOf(backup2)
        /\ RulesOf(backup1) = RulesOf(backup2)
        /\ SsidsOf(backup1) = SsidsOf(backup2)
        /\ PoliciesOf(backup1) = PoliciesOf(backup2)
        /\ SwitchesOf(backup1) = SwitchesOf(backup2)

\* the same for the L3 rule lists alone
C26_NoChangesMeansEqualRules ==
    (pc = "compared" /\ out = NoChangesReported) =>
        RulesOf(backup1) = RulesOf(backup2)

(***************************************************************************)
(* Further properties of the restore.                                      *)
(***************************************************************************)
\* every switch device of the snapshot has its serial
DevicesKeyed ==
    (Has(backup, "switch") /\ Has(backup["switch"], "devices")) =>
        \A n \in Indices(backup["switch"]["devices"]) :
            Has(backup["switch"]["devices"][n], "serial")

\* C27: whatever VLAN, SSID, group policy or port record of the snapshot
\* lacks its key (id, number, name, portId), no exception leaves
\* restore_from_backup, and a run that has ended has attempted every record
\* of every step.
C27_KeylessRecordIsOneFailedItem ==
    DevicesKeyed =>
        /\ pc # "crashed"
        /\ pc = "done" => SnapshotItems \subseteq attempted

\* the same when no VLAN lacks its id: the SSIDs, policies and ports
C27_KeylessLaterRecordIsOneFailedItem ==
    (/\ DevicesKeyed
     /\ (Has(backup, "appliance") /\ Has(backup["appliance"], "vlans")) =>
            AllHave(vlans_backup, {"id"})) =>
        pc # "crashed"

\* the creates of group policies among the calls
PolicyCreates == {n \in Writes : calls[n].op = "createNetworkGroupPolicy"}

\* the names of the policies on the target when call n was issued
PolicyNamesAt(n) ==
    PolicyNamesOn(remote0, network_id)
      \cup {calls[m].key : m \in {x \in PolicyCreates : x < n /\ calls[x].ok}}

\* C30: in one run of restore_group_policies no two creates carry the same
\* name, and no create carries a name that a policy of the target had when
\* the step started or that an earlier accepted create of the run gave one.
C30_OneCreatePerName ==
    /\ \A m, n \in PolicyCreates : calls[m].key = calls[n].key => m = n
    /\ \A n \in PolicyCreates : calls[n].key \notin PolicyNamesAt(n)

\* the same for the runs in which the read of the target's policies was
\* answered and the policies of the snapshot have distinct groupPolicyIds
C30_OneCreatePerNameAfterRead ==
    (/\ \A n \in Indices(calls) : calls[n].op = "getNetworkGroupPolicies" => calls[n].ok
     /\ Has(backup, "group_policies") => DistinctBy(policies_backup, "groupPolicyId"))
        => C30_OneCreatePerName

\* the network the snapshot was taken of
OriginalNetwork == backup["metadata"]["network_id"]

\* the serials of the devices of a network
SerialsOf(net) == {Devices(net)[n]["serial"] : n \in Indices(Devices(net))}

\* the network-level configuration of a network is as it was at the start
NetworkUntouched(net) ==
    /\ remote.vlans[net] = remote0.vlans[net]
    /\ remote.rules[net] = remote0.rules[net]
    /\ remote.ssids[net] = remote0.ssids[net]
    /\ remote.policies[net] = remote0.policies[net]

\* C25: in a restore onto a network other than the one the snapshot was
\* taken of, every write of the VLAN, firewall, SSID and policy steps names
\* the target network, and neither the original network's configuration
\* nor a port of one of its devices is changed.
C25_CrossNetworkLeavesOriginal ==
    network_id # OriginalNetwork =>
        /\ \A n \in Writes : calls[n].step < 5 => calls[n].net = network_id
        /\ NetworkUntouched(OriginalNetwork)
        /\ \A serial \in SerialsOf(OriginalNetwork) \cap DOMAIN remote.ports :
              remote.ports[serial] = remote0.ports[serial]

\* the part of it that is about the network-level steps
C25_NetworkStepsWriteTarget ==
    network_id # OriginalNetwork =>
        /\ \A n \in Writes : calls[n].step < 5 => calls[n].net = network_id
        /\ NetworkUntouched(OriginalNetwork)

\* a cross-network restore has ended after writes of a network-level step
\* were accepted
C25_NetworkStepsWitness ==
    /\ pc = "done"
    /\ network_id # OriginalNetwork
    /\ \E n \in Writes : calls[n].step < 5 /\ calls[n].ok

\* the values the records of the list that have the key have under it
KeysIn(list, k) == {list[n][k] : n \in {m \in Indices(list) : Has(list[m], k)}}

SnapshotVlanIds ==
    IF Has(backup, "appliance") /\ Has(backup["appliance"], "vlans")
    THEN KeysIn(vlans_backup, "id") ELSE {}

SnapshotSsidNumbers ==
    IF Has(backup, "wireless") /\ Has(backup["wireless"], "ssids")
    THEN KeysIn(ssids_backup, "number") ELSE {}

SnapshotPolicyNames ==
    IF Has(backup, "group_policies") THEN KeysIn(policies_backup, "name") ELSE {}

\* the port ids the snapshot holds for the switch of the serial
SnapshotPortIds(serial) ==
    IF Has(backup, "switch") /\ Has(backup["switch"], "devices")
    THEN UNION {IF /\ {"serial", "ports"} \subseteq DOMAIN devices_backup[n]
                   /\ devices_backup[n]["serial"] = serial
                THEN KeysIn(devices_backup[n]["ports"], "portId")
                ELSE {} : n \in Indices(devices_backup)}
    ELSE {}

\* the operations restore_from_backup calls; none deletes
RestoreOps ==
    {"getNetworkApplianceVlans", "updateNetworkApplianceVlan",
     "createNetworkApplianceVlan", "updateNetworkApplianceFirewallL3FirewallRules",
     "updateNetworkWirelessSsid", "getNetworkGroupPolicies",
     "createNetworkGroupPolicy", "updateDeviceSwitchPort"}

\* C28: at every point of a restore, every call issued is a read, an
\* update or a create; every VLAN, SSID and group policy the target had at
\* the start and every port a switch had is still there; and each of them
\* whose id, number, name or serial and portId no record of the snapshot
\* carries is as it was at the start.
C28_NothingRemoved ==
    /\ \A n \in Indices(calls) : calls[n].op \in RestoreOps
    /\ \A id \in DOMAIN remote0.vlans[network_id] :
          /\ id \in DOMAIN remote.vlans[network_id]
          /\ id \notin SnapshotVlanIds =>
                remote.vlans[network_id][id] = remote0.vlans[network_id][id]
    /\ \A num \in DOMAIN remote0.ssids[network_id] :
          /\ num \in DOMAIN remote.ssids[network_id]
          /\ num \notin SnapshotSsidNumbers =>
                remote.ssids[network_id][num] = remote0.ssids[network_id][num]
    /\ \A n \in Indices(remote0.policies[network_id]) :
          /\ n <= Len(remote.policies[network_id])
          /\ remote.policies[network_id][n]["name"] = remote0.policies[network_id][n]["name"]
          /\ remote0.policies[network_id][n]["name"] \notin SnapshotPolicyNames =>
                remote.policies[network_id][n] = remote0.policies[network_id][n]
    /\ \A serial \in DOMAIN remote0.ports :
          /\ serial \in DOMAIN remote.ports
          /\ \A pid \in DOMAIN remote0.ports[serial] :
                /\ pid \in DOMAIN remote.ports[serial]
                /\ pid \notin SnapshotPortIds(serial) =>
                      remote.ports[serial][pid] = remote0.ports[serial][pid]

\* a restore onto N_A has ended that updated VLAN 10 and a port of the
\* switch, while the target holds a VLAN and a port the snapshot has not
C28_Witness ==
    /\ pc = "done"
    /\ network_id = "N_A"
    /\ 99 \notin SnapshotVlanIds
    /\ \E n \in Writes : calls[n].op = "updateNetworkApplianceVlan" /\ calls[n].ok
    /\ \E n \in Writes : calls[n].op = "updateDeviceSwitchPort" /\ calls[n].ok
    /\ \E pid \in DOMAIN remote0.ports[Serials[1]] : pid \notin SnapshotPortIds(Serials[1])

(***************************************************************************)
(* The restore run twice: after a run in which no call was refused the     *)
(* operator restores the same snapshot onto the same target again.         *)
(* remote0 then holds the live state the second run started from.          *)
(***************************************************************************)
\* how many runs have printed the line
Printed(text) == Cardinality({n \in Indices(out) : out[n].text = text})

AllAccepted == \A n \in Indices(calls) : calls[n].ok

\* restore_from_backup is called again with the same arguments: its locals
\* are new, the prompt is answered as before
Rerun ==
    /\ pc = "done"
    /\ Printed("RESTORE COMPLETE") = 1
    /\ AllAccepted
    /\ pc' = "confirm"
    /\ remote0' = remote
    /\ current_vlan_ids' = {}
    /\ current_names' = {}
    /\ number' = Unbound
    /\ name' = Unbound
    /\ port_id' = Unbound
    /\ restored' = 0
    /\ d' = 0
    /\ i' = 0
    /\ attempted' = {}
    /\ UNCHANGED <<backup, network_id, confirm, remote, calls, out, exc, offline>>

NextTwice == Next \/ Rerun

SpecTwice == Init /\ [][NextTwice]_vars

\* C29: in a second restore of the same snapshot onto the same target,
\* started right after a first one, as long as no call of either run has
\* been refused, the target's VLANs, L3 rules, SSIDs, group policies and
\* switch ports are what the first run left; no VLAN and no group policy
\* is created twice; and when the second run has ended it has updated
\* every VLAN the first run created and skipped every policy the first run
\* created.
C29_SecondRunChangesNothing ==
    (Printed("STARTING RESTORE") = 2 /\ AllAccepted) =>
        /\ remote = remote0
        /\ \A m, n \in Writes :
              (/\ calls[m].op \in {"createNetworkApplianceVlan", "createNetworkGroupPolicy"}
               /\ calls[m].op = calls[n].op
               /\ ItemKey(calls[m]) = ItemKey(calls[n])) => m = n
        /\ Printed("RESTORE COMPLETE") = 2 =>
              \A n \in Writes :
                  /\ calls[n].op = "createNetworkApplianceVlan" =>
                        \E m \in Writes :
                            /\ n < m
                            /\ calls[m].op = "updateNetworkApplianceVlan"
                            /\ calls[m].key = ItemKey(calls[n])
                  /\ calls[n].op = "createNetworkGroupPolicy" =>
                        \E m \in Indices(out) :
                            out[m].text = "skip" /\ out[m].key = calls[n].key

\* a second run has ended without a refused call: the first run created a
\* VLAN and a group policy and replaced the rule list, the second run
\* updated the VLAN, replaced the rule list again and skipped the policy
C29_Witness ==
    /\ pc = "done"
    /\ Printed("RESTORE COMPLETE") = 2
    /\ AllAccepted
    /\ \E n \in Writes : calls[n].op = "createNetworkApplianceVlan"
    /\ \E n \in Writes : calls[n].op = "updateNetworkApplianceVlan"
    /\ \E n \in Writes : calls[n].op = "createNetworkGroupPolicy"
    /\ Cardinality({n \in Writes :
                      calls[n].op = "updateNetworkApplianceFirewallL3FirewallRules"}) = 2
    /\ \E m \in Indices(out) : out[m].text = "skip"


(***************************************************************************)
(* restore_from_backup.py: main() up to the confirmation gate.  main lists *)
(* the directory, reads the selection, loads the selected file for its     *)
(* network_id and calls restore_from_backup, which loads the file again    *)
(* and prints its metadata before it prompts.  The call is made inside     *)
(* main's try, whose handler catches ValueError: json.JSONDecodeError is a *)
(* subclass of ValueError.  The steps after the gate are those of Spec.    *)
(***************************************************************************)
RECURSIVE Native(_)
\* the Python value json.load returns, in the form the restore reads it:
\* lists as sequences, dicts as functions, strings and numbers as themselves
Native(v) ==
    IF Has(v, "list") THEN [n \in Indices(v["list"]) |-> Native(v["list"][n])]
    ELSE IF Has(v, "dict") THEN [k \in DOMAIN v["dict"] |-> Native(v["dict"][k])]
    ELSE IF Has(v, "str") THEN v["str"]
    ELSE IF Has(v, "num") THEN v["num"]
    ELSE v["lit"] = "True"

\* the fields of metadata main reads
MainReads == <<"network_id">>

\* the fields of metadata restore_from_backup prints, in order
MetadataPrinted == <<"network_name", "timestamp", "backup_version">>

\* json.load(f) followed by ['metadata'] and the reads of fields: "ok" or
\* the exception raised
LoadOutcome(text, fields) ==
    LET data == loads(text)
    IN  IF ~data.ok THEN "JSONDecodeError"
        ELSE IF ~Has(data.value, "dict") THEN "TypeError"
        ELSE IF ~Has(data.value["dict"], "metadata") THEN "KeyError"
        ELSE IF ~Has(data.value["dict"]["metadata"], "dict") THEN "TypeError"
        ELSE IF \E n \in Indices(fields) :
                    ~Has(data.value["dict"]["metadata"]["dict"], fields[n])
        THEN "KeyError"
        ELSE "ok"

\* the snapshot file with one field of its metadata removed
WithoutField(k) ==
    LET whole == MetadataOnly("2024-06-01T12:00:00")
    IN  [dict |-> [metadata |-> [dict |-> Drop(whole["dict"]["metadata"]["dict"], k)]]]

\* the texts a file selected for a restore can hold: a snapshot, a snapshot
\* cut short, an object without metadata, a list, and a snapshot lacking
\* one field of its metadata
RestoreFileTexts ==
    LET whole == dumps(MetadataOnly("2024-06-01T12:00:00"))
    IN  {whole, SubSeq(whole, 1, Len(whole) \div 2), dumps([dict |-> <<>>]),
         dumps([list |-> <<>>])}
          \cup {dumps(WithoutField(k)) :
                   k \in {"network_id", "network_name", "timestamp", "backup_version"}}

RestoreFileNames == {BackupFileName(<<"H", "Q">>, t) : t \in Clock}

InitMain ==
    /\ \E names \in SUBSET RestoreFileNames : files \in [names -> RestoreFileTexts]
    /\ backups = <<>>
    /\ backup1 = <<>>
    /\ backup2 = <<>>
    /\ all_changes = <<>>
    /\ backup = <<>>
    /\ network_id = ""
    /\ confirm \in ConfirmInputs
    /\ pc = "list_backups"
    /\ remote = RemoteInit
    /\ remote0 = remote
    /\ LocalsInit
    /\ HistoryInit

MainFrame ==
    UNCHANGED <<confirm, d, locals, remote, calls, attempted, remote0, offline>>

\* except (ValueError, KeyboardInterrupt): print("Cancelled"); main returns
Cancelled(lines) ==
    /\ out' = out \o lines \o <<Line("Cancelled", 0, 0)>>
    /\ pc' = "main_returned"
    /\ exc' = exc

\* main after list_backups(): the selection, the load of the selected file
\* and the read of its network_id; i keeps num for restore_from_backup
MainSelect ==
    /\ pc = "listed"
    /\ IF backups = <<>>
       THEN /\ out' = Append(out, Line("X No backups found", 0, 0))
            /\ pc' = "main_returned"
            /\ UNCHANGED <<i, network_id, exc>>
       ELSE \E answer \in {<<>>} \cup {<<n>> : n \in 0..(Len(backups) + 1)} :
              IF answer = <<>>
              THEN Cancelled(<<>>) /\ UNCHANGED <<i, network_id>>
              ELSE LET num == answer[1]
                       asked == <<Line("Select backup", 0, num)>>
                   IN  IF num < 1 \/ num > Len(backups)
                       THEN /\ out' = out \o asked \o <<Line("Invalid selection", 0, 0)>>
                            /\ pc' = "main_returned"
                            /\ UNCHANGED <<i, network_id, exc>>
                       ELSE LET text == files[backups[num]]
                                outcome == LoadOutcome(text, MainReads)
                            IN  /\ i' = num
                                /\ CASE outcome = "JSONDecodeError" ->
                                          Cancelled(asked) /\ network_id' = network_id
                                     [] outcome = "ok" ->
                                          /\ network_id' =
                                                Native(loads(text).value)["metadata"]["network_id"]
                                          /\ pc' = "restore_from_backup"
                                          /\ out' = out \o asked
                                          /\ exc' = exc
                                     [] OTHER ->
                                          /\ Raise(outcome)
                                          /\ out' = out \o asked
                                          /\ network_id' = network_id
    /\ backup' = backup
    /\ MainFrame

\* restore_from_backup up to its prompt: the load and the metadata printed
RestoreLoad ==
    /\ pc = "restore_from_backup"
    /\ LET text == files[backups[i]]
           outcome == LoadOutcome(text, MetadataPrinted)
           header == <<Line("RESTORING FROM BACKUP", 0, 0)>>
       IN  CASE outcome = "JSONDecodeError" ->
                  Cancelled(header) /\ UNCHANGED <<backup, i>>
             [] outcome = "ok" ->
                  /\ backup' = Native(loads(text).value)
                  /\ out' = out \o header \o <<Line("Backup Details", 0, 0)>>
                  /\ pc' = "confirm"
                  /\ i' = 0
                  /\ exc' = exc
             [] OTHER ->
                  /\ Raise(outcome)
                  /\ out' = out \o header
                  /\ UNCHANGED <<backup, i>>
    /\ network_id' = network_id
    /\ MainFrame

NextMain == ListBackups \/ ListEntry \/ MainSelect \/ RestoreLoad \/ Confirm

SpecMain == InitMain /\ [][NextMain]_vars

\* the numbers the operator selected
Selection == {out[n].key : n \in {m \in Indices(out) : out[m].text = "Select backup"}}

\* the file is not valid JSON or lacks a required field of its metadata
FormatError(text) ==
    LoadOutcome(text, MainReads \o MetadataPrinted) # "ok"

\* the operator selected a file of the list that has a format error
SelectedFormatError ==
    \E num \in Selection \cap Indices(backups) : FormatError(files[backups[num]])

\* C21: when the file selected for a restore is not valid JSON or lacks
\* network_id, network_name, timestamp or backup_version, the restore stops
\* with a failure: the run ends with an exception and never returns from
\* main as a run the operator cancelled does.
C21_StopsWithFailure ==
    SelectedFormatError => pc \in {"restore_from_backup", "crashed"}

\* C21, the part about the prompt and the service: after such a selection
\* the prompt is never reached, no call is issued and the live
\* configuration stays as it was.
C21_StopsBeforePromptAndCalls ==
    SelectedFormatError =>
        /\ pc \in {"restore_from_backup", "crashed", "main_returned"}
        /\ calls = <<>>
        /\ remote = remote0
        /\ Printed("STARTING RESTORE") = 0
        /\ Printed("Restore cancelled") = 0

\* a file lacking backup_version was selected and restore_from_backup
\* raised KeyError before its prompt
C21_MissingFieldWitness ==
    /\ SelectedFormatError
    /\ pc = "crashed"
    /\ exc = "KeyError"
    /\ Printed("RESTORING FROM BACKUP") = 1

\* a valid file was selected and the prompt was answered
C21_ValidFileWitness ==
    /\ ~SelectedFormatError
    /\ Selection # {}
    /\ pc = "step_vlans"
    /\ backup["metadata"]["backup_version"] = "1.0"

(***************************************************************************)
(* The backup directory over several runs: each run saves one snapshot     *)
(* with save_backup or lists the directory with list_backups.  The line    *)
(* "BACKUP SAVED" carries the network name and the moment of the save.     *)
(***************************************************************************)
MaxRuns == 3

\* the names of the networks saved: two of them differ only in characters
\* the sanitizing of save_backup removes
StoreNames ==
    {<<"H", "Q">>, <<"L", "a", "b", " ", "2">>, <<"L", "a", "b", " ", "2", "&", " ">>}

\* the snapshots saved
StoreSnapshots ==
    {MetadataOnly("2024-06-01T12:00:00"), MetadataOnly("yesterday")}

\* the "BACKUP SAVED" lines printed so far
Saves == {n \in Indices(out) : out[n].text = "BACKUP SAVED"}

\* the file the save of line n wrote
SavedAs(n) == BackupFileName(out[n].key[1], out[n].key[2])

\* datetime.now() does not precede the moment of an earlier save
NotBefore(now) ==
    \A n \in Saves : ~Less(strftime(now), strftime(out[n].key[2]))

InitStore ==
    /\ files = <<>>
    /\ backups = <<>>
    /\ backup1 = <<>>
    /\ backup2 = <<>>
    /\ all_changes = <<>>
    /\ backup = <<>>
    /\ network_id = "N_A"
    /\ confirm = ""
    /\ pc = "idle"
    /\ remote = RemoteInit
    /\ remote0 = remote
    /\ LocalsInit
    /\ HistoryInit

\* the runs started so far
Runs == Cardinality(Saves) + Printed("AVAILABLE BACKUPS")

\* one run of save_backup(backup, network_name) at the moment now
SaveRun ==
    /\ pc = "idle"
    /\ Runs < MaxRuns
    /\ \E snapshot \in StoreSnapshots, network_name \in StoreNames, now \in Clock :
        LET filename == BackupFileName(network_name, now)
        IN  /\ NotBefore(now)
            /\ backup' = snapshot
            /\ files' = Update(files, filename :> dumps(snapshot))
            /\ backups' = <<filename>>
            /\ out' = Append(out, Line("BACKUP SAVED", 0, <<network_name, now>>))
    /\ pc' = "idle"
    /\ UNCHANGED <<network_id, confirm, d, i, locals, remote, calls, exc,
                   attempted, remote0, backup1, backup2, all_changes>>

\* a run of list_backups() starts
ListRun ==
    /\ pc = "idle"
    /\ Runs < MaxRuns
    /\ pc' = "list_backups"
    /\ UNCHANGED <<backup, network_id, confirm, d, i, locals, remote, calls,
                   out, exc, attempted, remote0, offline>>

\* list_backups() has returned
ListReturn ==
    /\ pc = "listed"
    /\ pc' = "idle"
    /\ UNCHANGED <<backup, network_id, confirm, d, i, locals, remote, calls,
                   out, exc, attempted, remote0, offline>>

NextStore == SaveRun \/ ListRun \/ ListBackups \/ ListEntry \/ ListReturn

SpecStore == InitStore /\ [][NextStore]_vars

\* C22: a persisted file is overwritten only by a save with the same
\* network name and the same second: two saves that wrote the same file
\* had the same network name and the same moment.
C22_OnlySameNameAndSecondOverwrites ==
    \A m, n \in Saves : SavedAs(m) = SavedAs(n) => out[m].key = out[n].key

\* C22, the part about the second: two saves at different seconds wrote
\* different files, whatever their network names.
C22_DifferentSecondDistinctFiles ==
    \A m, n \in Saves : out[m].key[2] # out[n].key[2] => SavedAs(m) # SavedAs(n)

\* C22, the part about list_backups: no step of a listing changes the
\* directory.
C22_ListNeverWrites ==
    [][(ListRun \/ ListBackups \/ ListEntry \/ ListReturn) => files' = files]_vars

\* two saves at the same second under names that differ left one file,
\* holding the second snapshot
C22_OverwriteWitness ==
    \E m, n \in Saves :
        /\ m < n
        /\ out[m].key[1] # out[n].key[1]
        /\ out[m].key[2] = out[n].key[2]
        /\ Cardinality(DOMAIN files) = 1
        /\ files[SavedAs(m)] = dumps(backup)
        /\ Printed("AVAILABLE BACKUPS") = 1
=============================================================================
